---- MODULE Spec2Model ----
(***************************************************************************)
(* Verification model of ku-kick/NetworkOptimizationModel (package twoopt). *)
(*                                                                         *)
(* Part I   - mixed-radix RowIndex (data_processing/vector_index.py,       *)
(*            linsmat.py).                                                 *)
(* Part II  - equality rows of the two linear planners                     *)
(*            (optimization/data_amount_planning.py, linsolv_planner.py).  *)
(* Part III - operations and tick of the discrete simulation               *)
(*            (simulation.py).                                             *)
(*                                                                         *)
(* Amounts are floats in the program; the model uses integers, which the   *)
(* program's additions, subtractions, minima and maxima keep exact.        *)
(***************************************************************************)
EXTENDS Integers, Sequences, FiniteSets, TLC

VARIABLES
    indices,      \* RowIndex.indices: index name -> cardinality
    variables,    \* RowIndex.variables: ordered mapping, a sequence of [name, idx]
    call,         \* the last RowIndex.get_pos call and what it returned
    provider,     \* the data provider: a dict (variable, index values...) -> value
    planner,      \* the LinsolvPlanner under construction: its equality system
    sim_global,   \* SimGlobal: t, l, dt
    containers,   \* Simulation.containers: (j, rho, l) -> Container.amount
    containers_processed,  \* Simulation.containers_processed: (j, rho) -> amount
    ops,          \* the operations of the simulation, by kind and planned indices
    tick,         \* the last call of Simulation.step and how it ended
    ev,           \* the last call of an operation's step or step_teardown, or the
                  \* last refill of its input container by a caller
    hist,         \* number of calls made; last store operation that committed;
                  \* how the call of Simulation.reset ended
    di,           \* a data interface chain: its layers, and its last call
    ga            \* the module sim_opt: how its import ended, the population of a
                  \* GaSimVirtOpt, and its last call

simvars == <<sim_global, containers, containers_processed, ops, tick, ev, hist>>

vars == <<indices, variables, call, provider, planner, sim_global, containers,
          containers_processed, ops, tick, ev, hist, di, ga>>

(***************************************************************************)
(* Bounds of the model.                                                    *)
(***************************************************************************)
MaxCard == 2      \* largest index cardinality tried
MaxVars == 3      \* largest number of variables packed into one row
MaxNodes == 2     \* largest number of nodes (bound of j and of i)
MaxEnvs == 2      \* largest number of virtualized environments (bound of rho)
MaxSpans == 2     \* largest number of structural stability intervals (bound of l)
MaxAmount == 2    \* largest amount stored in the data provider
MaxCalls == 4     \* largest number of method calls made on a simulation
MaxSimSize == 3   \* largest nodes + intervals of a simulated network
MaxDataCalls == 2 \* largest number of calls made on a data interface chain
MaxPlanTicks == 3 \* largest planned amount of a lone transfer, in ticks at full rate
MaxPopulation == 2 \* largest population of the genetic optimisation
MaxGaCalls == 2   \* largest number of calls made on a GaSimVirtOpt
MaxTuple == 2     \* largest number of positional index values passed to a conversion

(***************************************************************************)
(* Generic helpers.                                                        *)
(***************************************************************************)
Range(s) == {s[k] : k \in DOMAIN s}

RECURSIVE SeqSum(_)
SeqSum(s) == IF s = <<>> THEN 0 ELSE Head(s) + SeqSum(Tail(s))

\* the entries of f, and those of g under the other keys
Merge(f, g) ==
    [k \in DOMAIN f \cup DOMAIN g |-> IF k \in DOMAIN f THEN f[k] ELSE g[k]]

\* functools.reduce(mult, m, 1)
RECURSIVE SeqProd(_)
SeqProd(s) == IF s = <<>> THEN 1 ELSE Head(s) * SeqProd(Tail(s))

NoCall == [made |-> FALSE, variable |-> "", kw |-> <<>>, res |-> [ok |-> FALSE, pos |-> -1]]
NoPlanner ==
    [built |-> FALSE, kind |-> "", keys |-> <<>>, eq_lhs |-> <<>>, eq_rhs |-> <<>>,
     solved |-> FALSE, res_x |-> <<>>, bnd |-> <<>>, obj |-> <<>>, status |-> -1,
     raised |-> ""]

\* what a call of data(...) gives: a returned value, or a raised exception
Ret(val) == [ok |-> TRUE, val |-> val, err |-> ""]
Raise(err) == [ok |-> FALSE, val |-> 0, err |-> err]

\* no data interface has been constructed: no layer, the defaults of the
\* fields of DefaultingDataInterface, no call made
NoCfg == [common |-> 0, override |-> <<>>, prohibited |-> {}, allowed |-> {}]
NoDataInterface ==
    [layers |-> <<>>, cfg |-> NoCfg, maker |-> "", raised |-> "", calls |-> 0,
     method |-> "", variable |-> "", kw |-> <<>>, res |-> Raise("")]

\* sim_opt has not been imported; no GaSimVirtOpt exists
NoGa ==
    [imported |-> "", population |-> <<>>, method |-> "", raised |-> "", calls |-> 0,
     population_size |-> 0, n_iterations |-> 0]

\* no call of Simulation.step yet; no call of an operation's method yet
NoTick == [called |-> FALSE, raised |-> "", log |-> <<>>]
NoEvent ==
    [op |-> <<>>, method |-> "", first |-> FALSE, in_before |-> 0, out_before |-> 0,
     moved |-> 0, start |-> 0, processed_before |-> 0, raised |-> ""]

\* SimGlobal(): dt = 1.0, t = 0.0, l = 0
SimGlobalInit == [t |-> 0, l |-> 0, dt |-> 1]

\* no simulation has been constructed
NoSimulation ==
    /\ sim_global = SimGlobalInit
    /\ containers = <<>>
    /\ containers_processed = <<>>
    /\ ops = <<>>
    /\ tick = NoTick
    /\ ev = NoEvent
    /\ hist = [calls |-> 0, last_store |-> <<>>, reset |-> ""]

(***************************************************************************)
(* Part I: RowIndex.                                                       *)
(***************************************************************************)
IndexNames == {"a", "b"}
IndexLists == {<<>>, <<"a">>, <<"a", "b">>, <<"b", "a">>}
\* the keys of the variable mapping, in insertion order
NameAt == <<"x", "y", "k", "m", "n">>
VarNames == {NameAt[k] : k \in 1..MaxVars}

\* list(self.variables.keys())
VarKeys == [k \in DOMAIN variables |-> variables[k].name]

\* list(self.variables.keys()).index(v)
KeyIndex(v) == CHOOSE k \in DOMAIN variables : variables[k].name = v

\* self.variables[v]
VarIndices(v) == variables[KeyIndex(v)].idx

\* RowIndex._check_precedence: True when var_a appears before var_b
check_precedence(var_a, var_b) == KeyIndex(var_a) < KeyIndex(var_b)

\* RowIndex.__post_init__: self.radix_maps[v]
radix_maps(v) == [k \in DOMAIN VarIndices(v) |-> indices[VarIndices(v)[k]]]

\* RowIndex.__post_init__: self.radix_mult_vectors[v], filled right to left
RECURSIVE mult_at(_, _)
mult_at(radix, i) ==
    IF i >= Len(radix) THEN 1 ELSE radix[i + 1] * mult_at(radix, i + 1)

mult_at_shifted(radix, i) ==
    IF i >= Len(radix) THEN 1 ELSE radix[i] * mult_at(radix, i + 1)

radix_mult_vectors_left(v) ==
    [i \in DOMAIN radix_maps(v) |-> mult_at_shifted(radix_maps(v), i)]

radix_mult_vectors(v) ==
    [i \in DOMAIN radix_maps(v) |-> mult_at(radix_maps(v), i)]

\* RowIndex.get_row_len
get_row_len ==
    SeqSum([k \in DOMAIN variables |-> SeqProd(radix_maps(variables[k].name))])

\* RowIndex._to_mixed_radix_number
to_mixed_radix_number(v, kw) == [k \in DOMAIN VarIndices(v) |-> kw[VarIndices(v)[k]]]

\* the three assertions of RowIndex.get_pos (from_zero is True at every call site)
get_pos_asserts(variable, kw) ==
    /\ variable \in Range(VarKeys)
    /\ DOMAIN kw = Range(VarIndices(variable))
    /\ \A i \in DOMAIN kw : 0 <= kw[i] /\ kw[i] <= indices[i]

\* the lambda map_var of RowIndex.get_pos
map_var(var, variable, kw) ==
    IF var = variable
    THEN SeqSum([i \in DOMAIN radix_maps(var) |->
                    to_mixed_radix_number(variable, kw)[i] * radix_mult_vectors(var)[i]])
    ELSE IF check_precedence(var, variable)
         THEN 0
         ELSE SeqProd(radix_maps(var))

Failed == [ok |-> FALSE, pos |-> -1]

\* RowIndex.get_pos: a position, or Failed when an assertion raises
get_pos(variable, kw) ==
    IF get_pos_asserts(variable, kw)
    THEN [ok |-> TRUE,
          pos |-> SeqSum([k \in DOMAIN variables |-> map_var(variables[k].name, variable, kw)])]
    ELSE Failed

\* the ordered variable mappings tried: the first n names, each with any index list
VariableMaps ==
    UNION {{[k \in 1..n |-> [name |-> NameAt[k], idx |-> il[k]]] : il \in [1..n -> IndexLists]} :
           n \in 1..MaxVars}

KwValues == (-1)..MaxCard
KwArgs == UNION {[S -> KwValues] : S \in SUBSET IndexNames}

\* a RowIndex as constructed, and the arguments of the get_pos call to come
InitIndex ==
    /\ indices \in [IndexNames -> 1..MaxCard]
    /\ variables \in VariableMaps
    /\ call \in {[made |-> FALSE, variable |-> v, kw |-> kw, res |-> Failed] :
                    v \in VarNames, kw \in KwArgs}
    /\ provider = <<>>
    /\ planner = NoPlanner
    /\ NoSimulation
    /\ di = NoDataInterface
    /\ ga = NoGa

\* the caller invokes row_index.get_pos(variable, **kw)
GetPos ==
    /\ ~call.made
    /\ call' = [call EXCEPT !.made = TRUE, !.res = get_pos(call.variable, call.kw)]
    /\ UNCHANGED <<indices, variables, provider, planner>>
    /\ UNCHANGED <<simvars, di, ga>>

NextIndex == GetPos

SpecIndex == InitIndex /\ [][NextIndex]_vars

(***************************************************************************)
(* Claims about RowIndex, checked under SpecIndex.                         *)
(***************************************************************************)
\* the call names a known variable, exactly its declared index names, and
\* every value lies in [0, cardinality)
InRange(v, kw) ==
    /\ v \in Range(VarKeys)
    /\ DOMAIN kw = Range(VarIndices(v))
    /\ \A i \in DOMAIN kw : 0 <= kw[i] /\ kw[i] < indices[i]

\* total cardinality of the variables inserted before v
SumBefore(v) ==
    SeqSum([k \in 1..(KeyIndex(v) - 1) |-> SeqProd(radix_maps(variables[k].name))])

\* mixed-radix place value of digit i: the product of the radices to its right
PlaceValue(radix, i) == SeqProd(SubSeq(radix, i + 1, Len(radix)))

\* dot product of the index values, in declared order, with the place values
DotProduct(v, kw) ==
    SeqSum([i \in DOMAIN VarIndices(v) |->
               kw[VarIndices(v)[i]] * PlaceValue(radix_maps(v), i)])

\* C1: for in-range indices, get_pos(v, indices) equals the total cardinality
\* of the variables inserted BEFORE v plus the mixed-radix dot product of v's
\* index values.  (The code adds the variables inserted AFTER v.)
Claim_C1 ==
    (call.made /\ InRange(call.variable, call.kw)) =>
        call.res = [ok |-> TRUE,
                    pos |-> SumBefore(call.variable) + DotProduct(call.variable, call.kw)]

\* every (variable, index combination) pair with in-range values
ValidPairs ==
    UNION {{<<variables[k].name, kw>> :
                kw \in {f \in [Range(variables[k].idx) -> 0..(MaxCard - 1)] :
                            \A i \in DOMAIN f : f[i] < indices[i]}} :
           k \in DOMAIN variables}

\* C2: get_pos restricted to the in-range pairs is a bijection onto
\* [0, get_row_len()): every position is in that range, two different pairs
\* never share a position, and there are get_row_len() pairs; variables with
\* an empty index list take one position each.
Thm_C2 ==
    call.made =>
        /\ \A p \in ValidPairs :
              /\ get_pos(p[1], p[2]).ok
              /\ get_pos(p[1], p[2]).pos \in 0..(get_row_len - 1)
        /\ \A p, q \in ValidPairs :
              p # q => get_pos(p[1], p[2]).pos # get_pos(q[1], q[2]).pos
        /\ Cardinality(ValidPairs) = get_row_len
        /\ InRange(call.variable, call.kw) =>
              /\ call.res.ok
              /\ call.res.pos \in 0..(get_row_len - 1)

\* a scalar variable was located in a row it shares with a two-index variable
Witness_C2 ==
    /\ call.made
    /\ call.res.ok
    /\ InRange(call.variable, call.kw)
    /\ VarIndices(call.variable) = <<>>
    /\ \E k \in DOMAIN variables :
          /\ Len(variables[k].idx) = 2
          /\ indices[variables[k].idx[1]] # indices[variables[k].idx[2]]
    /\ get_row_len > 2

\* C3: get_pos fails whenever the variable is unknown, the supplied index
\* names differ from the declared ones, or a value v is outside
\* [0, cardinality), i.e. v < 0 or v >= cardinality.  (The code accepts
\* v = cardinality.)
Claim_C3 ==
    (call.made /\ ~InRange(call.variable, call.kw)) => ~call.res.ok

(***************************************************************************)
(* Part II: the equality systems of the linear planners.                   *)
(***************************************************************************)
\* SCHEMA_VARIABLEINDICES: the index lists of x and of y, g, z, x_eq
IdxX == <<"j", "i", "rho", "l">>
IdxY == <<"j", "rho", "l">>

\* RowIndex.make_from_schema(self.schema, ["y", "x", "z", "g"])
PlanVariables ==
    << [name |-> "y", idx |-> IdxY], [name |-> "x", idx |-> IdxX],
       [name |-> "z", idx |-> IdxY], [name |-> "g", idx |-> IdxY] >>

\* linsmat.RowIndex.make_from_schema(self.schema, ["x", "y", "z", "g"])
LegacyVariables ==
    << [name |-> "x", idx |-> IdxX], [name |-> "y", idx |-> IdxY],
       [name |-> "z", idx |-> IdxY], [name |-> "g", idx |-> IdxY] >>

\* keyword arguments j=, rho=, l= and j=, i=, rho=, l=
Kw3(j, rho, l) ==
    [n \in {"j", "rho", "l"} |-> IF n = "j" THEN j ELSE IF n = "rho" THEN rho ELSE l]
Kw4(j, i, rho, l) ==
    [n \in {"j", "i", "rho", "l"} |->
        IF n = "j" THEN j ELSE IF n = "i" THEN i ELSE IF n = "rho" THEN rho ELSE l]

\* self.row_index.get_pos(...) where the assertions pass
Pos(v, kw) == get_pos(v, kw).pos

\* np.zeros(self.row_index.get_row_len())
zeros == [p \in 0..(get_row_len - 1) |-> 0]

RECURSIVE Flatten(_)
Flatten(ss) == IF ss = <<>> THEN <<>> ELSE Head(ss) \o Flatten(Tail(ss))

\* radix_cartesian_product: itertools.product(*map(range, radix_boundaries)),
\* the first range outermost, as a list of tuples
RECURSIVE radix_cartesian_product(_)
radix_cartesian_product(radix) ==
    IF radix = <<>>
    THEN << <<>> >>
    ELSE LET rest == radix_cartesian_product(Tail(radix))
         IN  Flatten([a \in 1..Head(radix) |->
                         [t \in DOMAIN rest |-> <<a - 1>> \o rest[t]]])

\* RamDataProvider.data: the stored value, or NoDataError
NoData == "NoData"
provider_data(key) == IF key \in DOMAIN provider THEN provider[key] ELSE NoData

\* DefaultingDataInterface._common_default_value
CommonDefault == 0

\* data_interface.get(variable, **indices) through the defaulting layer, for
\* a variable that may be defaulted
data_interface_get(key) ==
    IF key \notin DOMAIN provider THEN CommonDefault ELSE provider_data(key)

(***************************************************************************)
(* The layers of data_processing/data_interface.py and the chain built by  *)
(* optimization/data_amount_planning.py.                                   *)
(***************************************************************************)
\* SCHEMA_VARIABLEINDICES: the ordered index names of a variable
SchemaVarIndices(v) ==
    IF v \in {"x", "psi", "m_psi"} THEN IdxX
    ELSE IF v = "mm_psi" THEN <<"j", "i", "l">>
    ELSE IF v \in {"mm_v", "mm_phi"} THEN <<"j", "l">>
    ELSE IF v \in {"alpha_0", "alpha_1", "nodes", "virtualized_environments",
                   "structural_stability_intervals"} THEN <<>>
    ELSE IdxY

\* Schema.radix_map_iter_var(var): the index tuples of a packed variable,
\* the first index outermost
radix_map_iter_var(v) ==
    radix_cartesian_product([k \in DOMAIN SchemaVarIndices(v) |->
                                indices[SchemaVarIndices(v)[k]]])

\* Schema.indices_plain_to_dict(var, *ind)[1]: index name -> value
indices_plain_to_dict(v, t) ==
    [n \in Range(SchemaVarIndices(v)) |->
        t[CHOOSE k \in DOMAIN SchemaVarIndices(v) : SchemaVarIndices(v)[k] = n]]

\* Schema.indices_dict_to_plain(variable, **indices): (variable, index values...),
\* the key under which ConcreteDataInterface reads and writes the provider
indices_dict_to_plain(v, kw) ==
    <<v>> \o [k \in DOMAIN SchemaVarIndices(v) |-> kw[SchemaVarIndices(v)[k]]]

\* keyword arguments j=, l= and j=, i=, l=
Kw2(j, l) == [n \in {"j", "l"} |-> IF n = "j" THEN j ELSE l]
Kw3i(j, i, l) ==
    [n \in {"j", "i", "l"} |-> IF n = "j" THEN j ELSE IF n = "i" THEN i ELSE l]

\* ConcreteDataInterface.data: schema.indices_dict_to_plain asserts the index
\* names, then RamDataProvider.data returns the entry or raises NoDataError
ConcreteDataInterface_data(v, kw) ==
    IF DOMAIN kw # Range(SchemaVarIndices(v))
    THEN Raise("AssertionError")
    ELSE LET key == indices_dict_to_plain(v, kw)
         IN  IF key \in DOMAIN provider THEN Ret(provider[key])
             ELSE Raise("NoDataError")

\* DefaultingDataInterface.data, given what the wrapped layer did
DefaultingDataInterface_data_unfiltered(cfg, wrapped, v) ==
    IF wrapped.ok \/ wrapped.err # "NoDataError"
    THEN wrapped
    ELSE IF v \in DOMAIN cfg.override
    THEN Ret(cfg.override[v])
    ELSE Ret(cfg.common)
DefaultingDataInterface_data(cfg, wrapped, v) ==
    IF wrapped.ok \/ wrapped.err # "NoDataError"
    THEN wrapped
    ELSE IF cfg.allowed # {} /\ v \notin cfg.allowed
    THEN Raise("NoDataError")
    ELSE IF cfg.prohibited # {} /\ v \in cfg.prohibited
    THEN Raise("NoDataError")
    ELSE IF v \in DOMAIN cfg.override
    THEN Ret(cfg.override[v])
    ELSE Ret(cfg.common)

\* a * b of two data(...) calls, the left one made first
Product(a, b) ==
    IF ~a.ok THEN a ELSE IF ~b.ok THEN b ELSE Ret(a.val * b.val)

\* data(variable, **index_map) of layer n of a chain, layer 1 being the
\* ConcreteDataInterface: WrappingDataInterface.data and
\* ConstrainedDataInterface.data pass the call on,
\* _InferencingDataInferface.data falls back to the product of the factors
\* with i = index_map.get("j")
RECURSIVE layer_data(_, _, _, _)
layer_data(chain, n, v, kw) ==
    IF n = 1
    THEN ConcreteDataInterface_data(v, kw)
    ELSE IF chain.layers[n] = "defaulting"
    THEN DefaultingDataInterface_data(chain.cfg, layer_data(chain, n - 1, v, kw), v)
    ELSE IF chain.layers[n] = "inferencing"
    THEN LET direct == layer_data(chain, n - 1, v, kw)
         IN  IF direct.ok \/ direct.err \notin {"NoDataError", "ValueError"}
             THEN direct
             ELSE IF v = "phi"
             THEN Product(layer_data(chain, n - 1, "mm_phi", Kw2(kw["j"], kw["l"])),
                          layer_data(chain, n - 1, "m_phi",
                                     Kw3(kw["j"], kw["rho"], kw["l"])))
             ELSE IF v = "psi"
             THEN Product(layer_data(chain, n - 1, "mm_psi",
                                     Kw3i(kw["j"], kw["j"], kw["l"])),
                          layer_data(chain, n - 1, "m_psi",
                                     Kw4(kw["j"], kw["j"], kw["rho"], kw["l"])))
             ELSE IF v = "v"
             THEN Product(layer_data(chain, n - 1, "mm_v", Kw2(kw["j"], kw["l"])),
                          layer_data(chain, n - 1, "m_v",
                                     Kw3(kw["j"], kw["rho"], kw["l"])))
             ELSE layer_data(chain, n - 1, v, kw)
    ELSE layer_data(chain, n - 1, v, kw)

\* data(...) of the outermost layer of a chain
chain_data(chain, v, kw) == layer_data(chain, Len(chain.layers), v, kw)

\* make_data_interface_wrap_chain(root, *types): each type wraps the chain
\* built so far, so the last type is the outermost layer
RECURSIVE make_data_interface_wrap_chain(_, _)
make_data_interface_wrap_chain(out, types) ==
    IF types = <<>> THEN out
    ELSE make_data_interface_wrap_chain(Append(out, Head(types)), Tail(types))

\* the types _make_data_interface_schema_helper hands to the wrap chain
helper_types_defaulting_first == <<"defaulting", "constrained", "inferencing">>
helper_types == <<"constrained", "inferencing", "defaulting">>

\* _DefaultingDataInterface.__init__: the variables that are never defaulted
HelperCfg ==
    [common |-> CommonDefault, override |-> <<>>, allowed |-> {},
     prohibited |-> {"alpha_0", "alpha_1", "nodes", "structural_stability_intervals",
                     "tl", "dt", "virtualized_environments"}]

\* the chain of _make_data_interface_schema_helper
HelperChain ==
    [layers |-> make_data_interface_wrap_chain(<<"concrete">>, helper_types),
     cfg |-> HelperCfg]

\* _Schema.init_index_bounds(data_interface) as called by
\* _make_data_interface_schema_helper: the first of the three size variables
\* the chain cannot answer raises NoDataError, none of them being defaulted
init_index_bounds_raised ==
    \E v \in {"nodes", "structural_stability_intervals", "virtualized_environments"} :
        ~chain_data(HelperChain, v, <<>>).ok

\* the size variables a schema helper reads
SystemData ==
    [k \in {<<"nodes">>, <<"virtualized_environments">>,
            <<"structural_stability_intervals">>} |->
        IF k = <<"nodes">> THEN MaxNodes ELSE 1]

\* the stored capacities tried for the channel 0 -> 1 and for node 0: none;
\* psi, phi, v themselves; their factors only; their factors and those of the
\* channel 0 -> 0
StoredData(a) ==
    LET direct == {<<"psi", 0, 1, 0, 0>>, <<"phi", 0, 0, 0>>, <<"v", 0, 0, 0>>}
        intensity == {<<"mm_psi", 0, 1, 0>>, <<"mm_phi", 0, 0>>, <<"mm_v", 0, 0>>}
        fraction == {<<"m_psi", 0, 1, 0, 0>>, <<"m_phi", 0, 0, 0>>, <<"m_v", 0, 0, 0>>}
        self == {<<"mm_psi", 0, 0, 0>>, <<"m_psi", 0, 0, 0, 0>>}
        factors == [k \in intensity \cup fraction |-> IF k \in intensity THEN a ELSE 1]
    IN  {<<>>, [k \in direct |-> a], factors, Merge(factors, [k \in self |-> 1])}

\* the configurations of DefaultingDataInterface tried
DefaultingCfgs ==
    {[common |-> c, override |-> o, prohibited |-> f[1], allowed |-> f[2]] :
        c \in 0..1, o \in {<<>>, [v \in {"phi"} |-> MaxAmount]},
        f \in {<<{}, {}>>, <<{"phi"}, {}>>, <<{"psi"}, {}>>, <<{}, {"phi"}>>,
               <<{"phi"}, {"psi"}>>}}

\* the calls tried: (variable, index_map)
DataCalls ==
    {<<"psi", Kw4(0, 1, 0, 0)>>, <<"psi", Kw4(0, 0, 0, 0)>>, <<"phi", Kw3(0, 0, 0)>>,
     <<"v", Kw3(0, 0, 0)>>, <<"x_eq", Kw3(0, 0, 0)>>, <<"nodes", <<>>>>,
     <<"mm_phi", Kw2(0, 0)>>}

InitData ==
    /\ indices = [n \in {"j", "i", "rho", "l"} |-> 0]
    /\ variables = <<>>
    /\ call = NoCall
    /\ planner = NoPlanner
    /\ provider \in {Merge(sys, d) : sys \in {<<>>, SystemData},
                                     d \in UNION {StoredData(a) : a \in 1..MaxAmount}}
    /\ NoSimulation
    /\ di = NoDataInterface
    /\ ga = NoGa

\* DefaultingDataInterface(ConcreteDataInterface(provider, schema), ...): the
\* dataclass constructor, whose __post_init__ raises Exception when both
\* filters are non-empty
MakeDefaulting ==
    /\ di.layers = <<>>
    /\ di.raised = ""
    /\ \E cfg \in DefaultingCfgs :
          IF cfg.allowed # {} /\ cfg.prohibited # {}
          THEN di' = [di EXCEPT !.raised = "Exception"]
          ELSE di' = [di EXCEPT !.layers = <<"concrete", "defaulting">>,
                                !.cfg = cfg, !.maker = "DefaultingDataInterface"]
    /\ UNCHANGED <<indices, variables, call, provider, planner, simvars, ga>>

\* make_data_interface_wrap_chain(ConcreteDataInterface(...), ...) with the
\* inferring layer outermost
MakeInferencing ==
    /\ di.layers = <<>>
    /\ di.raised = ""
    /\ \E types \in {<<"inferencing">>, <<"constrained", "inferencing">>} :
          di' = [di EXCEPT !.layers = make_data_interface_wrap_chain(<<"concrete">>, types),
                           !.maker = "make_data_interface_wrap_chain"]
    /\ UNCHANGED <<indices, variables, call, provider, planner, simvars, ga>>

\* _make_data_interface_schema_helper(data_provider): the chain, then
\* schema.init_index_bounds(output_data_interface)
MakeHelper ==
    /\ di.layers = <<>>
    /\ di.raised = ""
    /\ IF init_index_bounds_raised
       THEN /\ di' = [di EXCEPT !.raised = "NoDataError"]
            /\ UNCHANGED indices
       ELSE /\ di' = [di EXCEPT !.layers = HelperChain.layers, !.cfg = HelperChain.cfg,
                                !.maker = "make_data_interface_schema_helper"]
            /\ indices' =
                  [n \in {"j", "i", "rho", "l"} |->
                      chain_data(HelperChain,
                                 IF n \in {"j", "i"} THEN "nodes"
                                 ELSE IF n = "l" THEN "structural_stability_intervals"
                                 ELSE "virtualized_environments",
                                 <<>>).val]
    /\ UNCHANGED <<variables, call, provider, planner, simvars, ga>>

\* data(variable, **index_map) on the outermost layer
Data ==
    /\ di.layers # <<>>
    /\ di.calls < MaxDataCalls
    /\ \E c \in DataCalls :
          di' = [di EXCEPT !.calls = @ + 1, !.method = "data", !.variable = c[1],
                           !.kw = c[2], !.res = chain_data(di, c[1], c[2])]
    /\ UNCHANGED <<indices, variables, call, provider, planner, simvars, ga>>

\* set_data(value, variable, **index_map) on the outermost layer: every layer
\* passes it on to ConcreteDataInterface.set_data and RamDataProvider.set_data
SetData ==
    /\ di.layers # <<>>
    /\ di.calls < MaxDataCalls
    /\ \E c \in {<<"psi", Kw4(0, 1, 0, 0)>>, <<"phi", Kw3(0, 0, 0)>>} :
       \E value \in 1..MaxAmount :
          /\ di' = [di EXCEPT !.calls = @ + 1, !.method = "set_data",
                              !.variable = c[1], !.kw = c[2], !.res = Ret(value)]
          /\ provider' = Merge([k \in {indices_dict_to_plain(c[1], c[2])} |-> value],
                               provider)
    /\ UNCHANGED <<indices, variables, call, planner, simvars, ga>>

NextData == MakeDefaulting \/ MakeInferencing \/ MakeHelper \/ Data \/ SetData

SpecData == InitData /\ [][NextData]_vars

(***************************************************************************)
(* Claims about the data interfaces, checked under SpecData.               *)
(***************************************************************************)
\* the outermost layer of the chain
Outermost == IF di.layers = <<>> THEN "" ELSE di.layers[Len(di.layers)]

Stored(v, kw) == indices_dict_to_plain(v, kw) \in DOMAIN provider
StoredValue(v, kw) == provider[indices_dict_to_plain(v, kw)]

\* C15: DefaultingDataInterface.data(v, **idx) returns the wrapped layer's
\* value unchanged when the wrapped layer has one; when the wrapped layer
\* raises NoDataError it raises NoDataError if v is in the prohibited set or
\* the allowed set is non-empty and v is not in it, and otherwise returns the
\* override configured for v, else the common default; the call never writes
\* to the wrapped layer.
Thm_C15 ==
    [][(Outermost = "defaulting" /\ di'.calls # di.calls /\ di'.method = "data") =>
          LET v == di'.variable
              kw == di'.kw
              wrapped == layer_data(di, Len(di.layers) - 1, v, kw)
              cfg == di.cfg
          IN  /\ provider' = provider
              /\ wrapped.ok => di'.res = wrapped
              /\ (di.layers = <<"concrete", "defaulting">> /\ Stored(v, kw))
                    => di'.res = Ret(StoredValue(v, kw))
              /\ (~wrapped.ok /\ wrapped.err = "NoDataError") =>
                    IF v \in cfg.prohibited \/ (cfg.allowed # {} /\ v \notin cfg.allowed)
                    THEN di'.res = Raise("NoDataError")
                    ELSE IF v \in DOMAIN cfg.override
                    THEN di'.res = Ret(cfg.override[v])
                    ELSE di'.res = Ret(cfg.common)]_vars

\* C15 witness: a defaulting layer over the storage, with psi prohibited and
\* an override of 2 for phi, has answered a call for a phi that is not stored
\* with the override and not with its common default.
Witness_C15 ==
    /\ di.layers = <<"concrete", "defaulting">>
    /\ di.method = "data"
    /\ di.variable = "phi"
    /\ ~Stored("phi", di.kw)
    /\ di.cfg.prohibited = {"psi"}
    /\ "phi" \in DOMAIN di.cfg.override
    /\ di.cfg.common # di.cfg.override["phi"]
    /\ di.res = Ret(di.cfg.override["phi"])

\* C16: _InferencingDataInferface.data returns the directly stored value of a
\* variable whenever one exists; when psi, phi or v is not stored it returns
\* the product of the two factors at the requested indices:
\* psi[j,i,rho,l] = mm_psi[j,i,l] * m_psi[j,i,rho,l],
\* phi[j,rho,l] = mm_phi[j,l] * m_phi[j,rho,l],
\* v[j,rho,l] = mm_v[j,l] * m_v[j,rho,l].
Claim_C16 ==
    (Outermost = "inferencing" /\ di.method = "data") =>
        LET v == di.variable
            kw == di.kw
            Factors(mm, mm_kw, m) ==
                (Stored(mm, mm_kw) /\ Stored(m, kw))
                    => di.res = Ret(StoredValue(mm, mm_kw) * StoredValue(m, kw))
        IN  /\ Stored(v, kw) => di.res = Ret(StoredValue(v, kw))
            /\ (~Stored(v, kw) /\ v = "psi")
                  => Factors("mm_psi", Kw3i(kw["j"], kw["i"], kw["l"]), "m_psi")
            /\ (~Stored(v, kw) /\ v = "phi")
                  => Factors("mm_phi", Kw2(kw["j"], kw["l"]), "m_phi")
            /\ (~Stored(v, kw) /\ v = "v")
                  => Factors("mm_v", Kw2(kw["j"], kw["l"]), "m_v")

HelperMade == di.maker = "make_data_interface_schema_helper"

RECURSIVE transfer_coefficients(_, _, _, _, _)
transfer_coefficients(vec, j, rho, l, i) ==
    IF i >= indices["j"]
    THEN vec
    ELSE transfer_coefficients(
             IF i # j
             THEN [vec EXCEPT ![Pos("x", Kw4(i, j, rho, l))] = -1,
                              ![Pos("x", Kw4(j, i, rho, l))] = 1]
             ELSE vec,
             j, rho, l, i + 1)

\* the test of LinsolvPlanner.__make_eq_lhs_rhs for the previous interval
has_previous_skip(l) == l > 1
has_previous(l) == l > 0

\* optimization/data_amount_planning.py LinsolvPlanner.__make_eq_lhs_rhs
make_eq_lhs_rhs(j, rho, l) ==
    LET v1 == [zeros EXCEPT ![Pos("g", Kw3(j, rho, l))] = 1,
                            ![Pos("y", Kw3(j, rho, l))] = 1,
                            ![Pos("z", Kw3(j, rho, l))] = 1]
        v2 == IF has_previous(l)
              THEN [v1 EXCEPT ![Pos("y", Kw3(j, rho, l - 1))] = -1]
              ELSE v1
    IN  [vec |-> transfer_coefficients(v2, j, rho, l, 0),
         rhs |-> data_interface_get(<<"x_eq", j, rho, l>>)]

\* float("inf"): above every stored value and every product of two of them
Inf == MaxAmount * MaxAmount + 1

\* zip(a, b): as long as the shorter of the two
zip(a, b) ==
    [k \in 1..(IF Len(a) <= Len(b) THEN Len(a) ELSE Len(b)) |-> <<a[k], b[k]>>]

\* the pairs of __init_bnd_matrix:
\* zip(LinsolvPlanner._NEQ_VAR_ORDER, LinsolvPlanner._NEQ_VAR_ORDER_RHS)
bnd_pairs_shifted == zip(<<"y", "g", "z">>, <<"psi", "v", "phi">>)
bnd_pairs == zip(<<"x", "y", "g", "z">>, <<"psi", "v", "phi">>)

\* the assignments bnd[pos][1] = upper_bound of __init_bnd_matrix, in the
\* order the two loops make them: (var, bnd_var, index tuple)
bnd_writes ==
    Flatten([k \in DOMAIN bnd_pairs |->
                [m \in DOMAIN radix_map_iter_var(bnd_pairs[k][1]) |->
                    <<bnd_pairs[k][1], bnd_pairs[k][2],
                      radix_map_iter_var(bnd_pairs[k][1])[m]>>]])

\* self.data_interface.get(variable, **indices) of the planner: the adapter
\* asks the outermost layer of the chain
planner_get(v, kw) == chain_data(HelperChain, v, kw)

\* optimization/data_amount_planning.py LinsolvPlanner.__init_bnd_matrix:
\* [0, inf] everywhere, then the assignments in order, so that the last
\* assignment to a position decides its upper bound
init_bnd_matrix ==
    LET ws == bnd_writes
        indices_dict(w) == indices_plain_to_dict(ws[w][1], ws[w][3])
        pos == [w \in DOMAIN ws |-> Pos(ws[w][1], indices_dict(w))]
    IN  [p \in 0..(get_row_len - 1) |->
            LET hits == {w \in DOMAIN ws : pos[w] = p}
            IN  IF hits = {} THEN <<0, Inf>>
                ELSE LET last == CHOOSE w \in hits : \A w2 \in hits : w2 <= w
                     IN  <<0, planner_get(ws[last][2], indices_dict(last)).val>>]

\* schema.radix_map_iter_var_dict("x_eq")
x_eq_indices == radix_cartesian_product(<<indices["j"], indices["rho"], indices["l"]>>)

\* optimization/data_amount_planning.py LinsolvPlanner.__make_eq
make_eq ==
    [built |-> TRUE, kind |-> "plan", keys |-> x_eq_indices,
     solved |-> FALSE, res_x |-> <<>>, bnd |-> <<>>, obj |-> <<>>, status |-> -1,
     raised |-> "",
     eq_lhs |-> [k \in DOMAIN x_eq_indices |->
                    make_eq_lhs_rhs(x_eq_indices[k][1], x_eq_indices[k][2],
                                    x_eq_indices[k][3]).vec],
     eq_rhs |-> [k \in DOMAIN x_eq_indices |->
                    make_eq_lhs_rhs(x_eq_indices[k][1], x_eq_indices[k][2],
                                    x_eq_indices[k][3]).rhs]]

\* the schemas tried: make_schema(max_nodes, max_virtualized_environments,
\* max_structural_stability_intervals); j and i share one bound
SchemaBounds ==
    {[n \in {"j", "i", "rho", "l"} |->
         IF n \in {"j", "i"} THEN nn ELSE IF n = "rho" THEN nr ELSE nl] :
     nn \in 1..MaxNodes, nr \in 1..MaxEnvs, nl \in 1..MaxSpans}

\* the keys of x_eq under the bounds b
XEqKeys(b) ==
    {<<"x_eq", j, rho, l>> : j \in 0..(b["j"] - 1), rho \in 0..(b["rho"] - 1),
                             l \in 0..(b["l"] - 1)}

\* the data tried: no x_eq entry, one entry, or every entry
XEqData(b) ==
    {<<>>}
    \cup {[k \in {key} |-> a] : key \in XEqKeys(b), a \in 1..MaxAmount}
    \cup {[k \in XEqKeys(b) |-> a] : a \in 1..MaxAmount}

\* the capacities psi, v, phi stored directly for every index combination,
\* with values that differ between neighbouring indices
CapacityDirect(b, u) ==
    LET J == 0..(b["j"] - 1)
        R == 0..(b["rho"] - 1)
        L == 0..(b["l"] - 1)
        keys == {<<"psi", j, i, rho, l>> : j \in J, i \in J, rho \in R, l \in L}
                \cup {<<c, j, rho, l>> : c \in {"v", "phi"}, j \in J, rho \in R, l \in L}
    IN  [k \in keys |->
            IF k[1] = "psi" THEN (k[2] + 2 * k[3] + k[4] + k[5] + u) % (MaxAmount + 1)
            ELSE IF k[1] = "v" THEN (k[2] + k[4] + u) % (MaxAmount + 1)
            ELSE (k[2] + k[3] + u + 1) % (MaxAmount + 1)]

\* the capacities stored as factors only: intensity u and fraction 1 for
\* every index combination
CapacityFactors(b, u) ==
    LET J == 0..(b["j"] - 1)
        R == 0..(b["rho"] - 1)
        L == 0..(b["l"] - 1)
        keys == {<<"mm_psi", j, i, l>> : j \in J, i \in J, l \in L}
                \cup {<<"m_psi", j, i, rho, l>> : j \in J, i \in J, rho \in R, l \in L}
                \cup {<<c, j, l>> : c \in {"mm_v", "mm_phi"}, j \in J, l \in L}
                \cup {<<c, j, rho, l>> : c \in {"m_v", "m_phi"}, j \in J, rho \in R, l \in L}
    IN  [k \in keys |-> IF k[1] \in {"mm_psi", "mm_v", "mm_phi"} THEN u ELSE 1]

\* the capacity data tried: none, stored directly, stored as factors
CapacityData(b) ==
    {<<>>}
    \cup {CapacityDirect(b, u) : u \in 1..MaxAmount}
    \cup {CapacityFactors(b, u) : u \in 1..MaxAmount}

\* _SIMPLE_AB_TRANSFER_DATA of test/optimization/data_amount_planning.py with
\* input a: node 0 receives a, has no storage and no processing capacity, the
\* channel 0 -> 1 carries a, node 1 processes a; equal weights
ScenarioData(b, a) ==
    LET sys == {<<"nodes">>, <<"virtualized_environments">>,
                <<"structural_stability_intervals">>}
        keys == sys \cup {<<"alpha_0">>, <<"alpha_1">>, <<"x_eq", 0, 0, 0>>,
                          <<"psi", 0, 1, 0, 0>>, <<"phi", 1, 0, 0>>}
    IN  [k \in keys |->
            IF k = <<"nodes">> THEN b["j"]
            ELSE IF k = <<"virtualized_environments">> THEN b["rho"]
            ELSE IF k = <<"structural_stability_intervals">> THEN b["l"]
            ELSE IF k \in {<<"alpha_0">>, <<"alpha_1">>} THEN 1
            ELSE a]

ScenarioDataSet(b) ==
    IF b["j"] < 2 THEN {} ELSE {ScenarioData(b, a) : a \in 1..MaxAmount}

InitPlan ==
    /\ indices \in SchemaBounds
    /\ variables = PlanVariables
    /\ call = NoCall
    /\ provider \in XEqData(indices) \cup CapacityData(indices)
                       \cup ScenarioDataSet(indices)
    /\ planner = NoPlanner
    /\ NoSimulation
    /\ di = NoDataInterface
    /\ ga = NoGa

\* LinsolvPlanner.__post_init__: self.eq_lhs, self.eq_rhs = self.__make_eq();
\* self.bnd = self.__init_bnd_matrix()
MakeEq ==
    /\ ~planner.built
    /\ planner' = [make_eq EXCEPT !.bnd = init_bnd_matrix]
    /\ UNCHANGED <<indices, variables, call, provider>>
    /\ UNCHANGED <<simvars, di, ga>>

\* the provider keys LinsolvPlanner.solve writes: every packed variable with
\* every index combination of schema.radix_map_iter_var_dict(variable)
solve_keys ==
    UNION {{indices_dict_to_plain(v, indices_plain_to_dict(v, t)) :
               t \in Range(radix_map_iter_var(v))} : v \in Range(VarKeys)}

\* the loops of LinsolvPlanner.solve: data_interface.set(variable,
\* solution.x[pos], **indices[1]) through the adapter and the wrapping layers
\* down to RamDataProvider.set_data
solve_set(x) ==
    [key \in DOMAIN provider \cup solve_keys |->
        IF key \in solve_keys
        THEN x[Pos(key[1], indices_plain_to_dict(key[1], Tail(key)))]
        ELSE provider[key]]

\* scipy.optimize.OptimizeResult.status: 0 optimal, 1 iteration limit,
\* 2 infeasible, 3 unbounded, 4 numerical difficulties
LinprogStatus == 0..4

\* solution.x as far as solve is concerned: some vector of row length; the
\* vectors tried take a different value at neighbouring positions
SolutionVectors ==
    {[p \in 0..(get_row_len - 1) |-> (a * p + b) % (MaxAmount + 1)] :
        a \in 0..1, b \in 0..MaxAmount}

\* the test of LinsolvPlanner.solve: 0 == solution.status
status_is_optimal_or_limit(status) == status <= 1
status_is_optimal(status) == 0 = status

\* optimization/data_amount_planning.py LinsolvPlanner.solve
PlanSolve ==
    /\ planner.built
    /\ planner.kind = "plan"
    /\ planner.status = -1
    /\ \E status \in LinprogStatus : \E x \in SolutionVectors :
          IF status_is_optimal(status)
          THEN /\ provider' = solve_set(x)
               /\ planner' = [planner EXCEPT !.solved = TRUE, !.res_x = x,
                                             !.status = status]
          ELSE /\ provider' = provider
               /\ planner' = [planner EXCEPT !.status = status,
                                             !.raised = "AssertionError"]
    /\ UNCHANGED <<indices, variables, call>>
    /\ UNCHANGED <<simvars, di, ga>>

\* test_simple_transfer up to its assertion:
\* solver = ProcessedDataAmountMaximizationSolver(data_provider); solver.run().
\* The constructor builds the chain and the schema, then calls
\* Solver.__init__(self, data_interface=...) without its schema argument, which
\* raises TypeError before a planner exists; run is never reached.
SolverRun ==
    /\ ~planner.built
    /\ planner.raised = ""
    /\ planner' = [planner EXCEPT !.raised = IF init_index_bounds_raised
                                             THEN "NoDataError" ELSE "TypeError"]
    /\ UNCHANGED <<indices, variables, call, provider>>
    /\ UNCHANGED <<simvars, di, ga>>

NextPlan == MakeEq \/ PlanSolve \/ SolverRun

SpecPlan == InitPlan /\ [][NextPlan]_vars

\* the loop over i of linsolv_planner.LinsolvPlanner.__make_eq_lhs_vector:
\* get_pos('x', i=i, j=j, ...) gets -1 and get_pos('x', i=j, j=i, ...) gets 1
RECURSIVE legacy_transfer_coefficients(_, _, _, _, _)
legacy_transfer_coefficients(stub, j, rho, l, i) ==
    IF i >= indices["i"]
    THEN stub
    ELSE legacy_transfer_coefficients(
             IF i # j
             THEN [stub EXCEPT ![Pos("x", Kw4(j, i, rho, l))] = -1,
                               ![Pos("x", Kw4(i, j, rho, l))] = 1]
             ELSE stub,
             j, rho, l, i + 1)

\* twoopt/linsolv_planner.py LinsolvPlanner.__make_eq_lhs_vector
make_eq_lhs_vector(j, rho, l) ==
    LET s1 == [zeros EXCEPT ![Pos("y", Kw3(j, rho, l))] = 1,
                            ![Pos("z", Kw3(j, rho, l))] = -1,
                            ![Pos("g", Kw3(j, rho, l))] = 1]
        s2 == IF l # 0
              THEN [s1 EXCEPT ![Pos("y", Kw3(j, rho, l - 1))] = -1]
              ELSE s1
    IN  legacy_transfer_coefficients(s2, j, rho, l, 0)

\* PermissiveCsvBufferedDataProvider.get_plain: assert key in self.keys()
get_plain_defined(key) == key \in DOMAIN provider

\* SelectSeq with a test on the element
RECURSIVE Filter(_, _)
Filter(seq, keep) ==
    IF seq = <<>> THEN <<>>
    ELSE IF Head(seq) \in keep THEN <<Head(seq)>> \o Filter(Tail(seq), keep)
    ELSE Filter(Tail(seq), keep)

\* LinsolvPlanner.__x_eq_constraint_indices_iter: the index tuples of x_eq
\* whose get_plain does not raise AssertionError
x_eq_constraint_indices_iter ==
    Filter(x_eq_indices,
           {t \in Range(x_eq_indices) : get_plain_defined(<<"x_eq", t[1], t[2], t[3]>>)})

\* LinsolvPlanner.__init_bnd_matrix of twoopt/linsolv_planner.py: the keys
\* get_plain(bnd_var, *indices) is asked for, in the order of the loops
legacy_bnd_keys ==
    [w \in DOMAIN bnd_writes |-> <<bnd_writes[w][2]>> \o bnd_writes[w][3]]

\* LinsolvPlanner.__init_bnd_matrix of twoopt/linsolv_planner.py: [0, inf] for
\* every position, then bnd[pos][1] = get_plain(bnd_var, *indices) in order
legacy_init_bnd_matrix ==
    LET ws == bnd_writes
        pos == [w \in DOMAIN ws |-> Pos(ws[w][1], indices_plain_to_dict(ws[w][1], ws[w][3]))]
    IN  [p \in 0..(get_row_len - 1) |->
            LET hits == {w \in DOMAIN ws : pos[w] = p}
            IN  IF hits = {} THEN <<0, Inf>>
                ELSE LET last == CHOOSE w \in hits : \A w2 \in hits : w2 <= w
                     IN  <<0, provider[legacy_bnd_keys[last]]>>]

\* an objective vector that lacks the entry of the last position
init_obj_short == [p \in 0..(get_row_len - 2) |-> 1]

\* LinsolvPlanner.__init_obj: np.ones(get_row_len()), then -alpha_0 at every
\* position of g and alpha_1 at every position of z
init_obj ==
    LET jrl == radix_cartesian_product(<<indices["j"], indices["rho"], indices["l"]>>)
        pos_g == {Pos("g", Kw3(t[1], t[2], t[3])) : t \in Range(jrl)}
        pos_z == {Pos("z", Kw3(t[1], t[2], t[3])) : t \in Range(jrl)}
    IN  [p \in 0..(get_row_len - 1) |->
            IF p \in pos_z THEN provider[<<"alpha_1">>]
            ELSE IF p \in pos_g THEN 0 - provider[<<"alpha_0">>]
            ELSE 1]

\* LinsolvPlanner.__post_init__ of twoopt/linsolv_planner.py:
\* __init_eq_lhs_matrix, __init_eq_rhs_matrix, __init_bnd_matrix and
\* __init_obj; a get_plain of a key the provider lacks fails its assertion
\* and no planner is constructed
legacy_post_init ==
    LET keys == x_eq_constraint_indices_iter
    IN  IF \/ \E w \in DOMAIN legacy_bnd_keys : ~get_plain_defined(legacy_bnd_keys[w])
           \/ ~get_plain_defined(<<"alpha_0">>)
           \/ ~get_plain_defined(<<"alpha_1">>)
        THEN [NoPlanner EXCEPT !.kind = "legacy", !.raised = "AssertionError"]
        ELSE [built |-> TRUE, kind |-> "legacy", keys |-> keys,
              solved |-> FALSE, res_x |-> <<>>, bnd |-> legacy_init_bnd_matrix,
              obj |-> init_obj, status |-> -1, raised |-> "",
              eq_lhs |-> [k \in DOMAIN keys |->
                             make_eq_lhs_vector(keys[k][1], keys[k][2], keys[k][3])],
              eq_rhs |-> [k \in DOMAIN keys |->
                             provider[<<"x_eq", keys[k][1], keys[k][2], keys[k][3]>>]]]

\* the data of the legacy planner besides x_eq: none, or every capacity psi,
\* v, phi at MaxAmount and both weights alpha_0 and alpha_1 at 1
LegacyData(b) ==
    LET J == 0..(b["j"] - 1)
        R == 0..(b["rho"] - 1)
        L == 0..(b["l"] - 1)
        keys == {<<"psi", j, i, rho, l>> : j \in J, i \in J, rho \in R, l \in L}
                \cup {<<c, j, rho, l>> : c \in {"v", "phi"}, j \in J, rho \in R, l \in L}
                \cup {<<"alpha_0">>, <<"alpha_1">>}
    IN  {<<>>, [k \in keys |-> IF Len(k) = 1 THEN 1 ELSE MaxAmount]}

InitLegacy ==
    /\ indices \in SchemaBounds
    /\ variables = LegacyVariables
    /\ call = NoCall
    /\ \E xs \in XEqData(indices), cs \in LegacyData(indices) : provider = Merge(xs, cs)
    /\ planner = NoPlanner
    /\ NoSimulation
    /\ di = NoDataInterface
    /\ ga = NoGa

\* ls_planner = linsolv_planner.LinsolvPlanner(self.data_interface, self.schema)
LegacyPostInit ==
    /\ ~planner.built
    /\ planner' = legacy_post_init
    /\ UNCHANGED <<indices, variables, call, provider>>
    /\ UNCHANGED <<simvars, di, ga>>

\* A_eq x = b_eq for the vector that is a at p, b at q and 0 elsewhere
SatisfiesEq(p, a, q, b) ==
    \A k \in DOMAIN planner.eq_lhs :
        planner.eq_lhs[k][p] * a + (IF q # p THEN planner.eq_lhs[k][q] * b ELSE 0)
            = planner.eq_rhs[k]

\* LinsolvPlanner.solve: scipy.optimize.linprog(..., A_eq=self.eq_lhs,
\* b_eq=self.eq_rhs) returns a vector within the bounds [0, upper] that
\* satisfies the equality system; the vectors tried have at most two nonzero
\* entries, and the upper bounds psi, v, phi are taken to be at least MaxAmount
Solve ==
    /\ planner.built
    /\ planner.kind = "legacy"
    /\ ~planner.solved
    /\ \E p, q \in 0..(get_row_len - 1) : \E a, b \in 0..MaxAmount :
          /\ p <= q
          /\ p = q => a = b
          /\ SatisfiesEq(p, a, q, b)
          /\ planner' = [planner EXCEPT !.solved = TRUE,
                                        !.res_x = [zeros EXCEPT ![p] = a, ![q] = b]]
    /\ UNCHANGED <<indices, variables, call, provider>>
    /\ UNCHANGED <<simvars, di, ga>>

NextLegacy == LegacyPostInit \/ Solve

SpecLegacy == InitLegacy /\ [][NextLegacy]_vars

(***************************************************************************)
(* Claims about the planners.                                              *)
(***************************************************************************)
\* the nodes other than j
OtherNodes(j) == (0..(indices["j"] - 1)) \ {j}

\* the coefficient the balance row of (j, rho, l) is to carry at position p
BalanceCoefficient(j, rho, l, p) ==
    IF p \in {Pos("y", Kw3(j, rho, l)), Pos("g", Kw3(j, rho, l)), Pos("z", Kw3(j, rho, l))}
    THEN 1
    ELSE IF l > 0 /\ p = Pos("y", Kw3(j, rho, l - 1))
    THEN -1
    ELSE IF \E i \in OtherNodes(j) : p = Pos("x", Kw4(i, j, rho, l))
    THEN -1
    ELSE IF \E i \in OtherNodes(j) : p = Pos("x", Kw4(j, i, rho, l))
    THEN 1
    ELSE 0

PlanBuilt == planner.built /\ planner.kind = "plan"

\* C4: in the planner of optimization/data_amount_planning.py the equality
\* row built for (j, rho, l) carries +1 at y, g and z of (j, rho, l), -1 at
\* y of (j, rho, l-1) only when l > 0, -1 at every incoming transfer
\* x[j=i,i=j,rho,l] and +1 at every outgoing transfer x[j=j,i=i,rho,l] for
\* i # j, 0 at every other position, and its right-hand side is the x_eq
\* value stored for (j, rho, l).
Thm_C4 ==
    PlanBuilt =>
        \A k \in DOMAIN planner.keys :
            LET j == planner.keys[k][1]
                rho == planner.keys[k][2]
                l == planner.keys[k][3]
            IN  /\ DOMAIN planner.eq_lhs[k] = 0..(get_row_len - 1)
                /\ \A p \in 0..(get_row_len - 1) :
                       planner.eq_lhs[k][p] = BalanceCoefficient(j, rho, l, p)
                /\ <<"x_eq", j, rho, l>> \in DOMAIN provider
                       => planner.eq_rhs[k] = provider[<<"x_eq", j, rho, l>>]

\* C4 witness: a built system with two nodes and two intervals whose row for
\* an interval l > 0 has a stored x_eq of 2 as its right-hand side.
Witness_C4 ==
    /\ PlanBuilt
    /\ indices["j"] = 2
    /\ \E k \in DOMAIN planner.keys :
          /\ planner.keys[k][3] > 0
          /\ <<"x_eq", planner.keys[k][1], planner.keys[k][2], planner.keys[k][3]>>
                 \in DOMAIN provider
          /\ planner.eq_rhs[k] = 2
          /\ \E p \in DOMAIN planner.eq_lhs[k] : planner.eq_lhs[k][p] = -1

\* sum of res_x over the transfers of node j, outgoing or incoming
RECURSIVE TransferSum(_, _, _, _, _)
TransferSum(j, rho, l, outgoing, i) ==
    IF i >= indices["i"] THEN 0
    ELSE planner.res_x[IF outgoing THEN Pos("x", Kw4(j, i, rho, l))
                                   ELSE Pos("x", Kw4(i, j, rho, l))]
         + TransferSum(j, rho, l, outgoing, i + 1)

\* y - y_prev + g + z + outflow - inflow of the solved vector at (j, rho, l)
Conservation(j, rho, l) ==
    planner.res_x[Pos("y", Kw3(j, rho, l))]
    - (IF l > 0 THEN planner.res_x[Pos("y", Kw3(j, rho, l - 1))] ELSE 0)
    + planner.res_x[Pos("g", Kw3(j, rho, l))]
    + planner.res_x[Pos("z", Kw3(j, rho, l))]
    + TransferSum(j, rho, l, TRUE, 0)
    - TransferSum(j, rho, l, FALSE, 0)

\* C5: every vector that satisfies the equality system built by the planner
\* of twoopt/linsolv_planner.py satisfies, for every (j, rho, l) with a
\* defined x_eq: y[j,rho,l] - y[j,rho,l-1] (l > 0) + g + z + outflow - inflow
\* equals x_eq[j,rho,l].
Claim_C5 ==
    (planner.kind = "legacy" /\ planner.solved) =>
        \A j \in 0..(indices["j"] - 1), rho \in 0..(indices["rho"] - 1),
           l \in 0..(indices["l"] - 1) :
            <<"x_eq", j, rho, l>> \in DOMAIN provider
                => Conservation(j, rho, l) = provider[<<"x_eq", j, rho, l>>]

\* C11: LinsolvPlanner.solve of optimization/data_amount_planning.py writes
\* to the data interface if and only if the status of the linear program is
\* optimal (0): on status 0 the value stored afterwards for every packed
\* variable (y, x, z, g) and every index combination of that variable is
\* solution.x[get_pos(variable, indices)]; on any other status the call fails
\* and no entry of the data interface is changed.
Thm_C11 ==
    [][(PlanBuilt /\ planner.status = -1 /\ planner'.status # -1) =>
          IF planner'.status = 0
          THEN /\ planner'.raised = ""
               /\ \A v \in {"y", "x", "z", "g"} :
                     \A t \in Range(radix_map_iter_var(v)) :
                        /\ <<v>> \o t \in DOMAIN provider'
                        /\ provider'[<<v>> \o t]
                              = planner'.res_x[Pos(v, indices_plain_to_dict(v, t))]
          ELSE /\ planner'.raised = "AssertionError"
               /\ provider' = provider]_vars

\* C11 witness: an optimal solve on two nodes has stored the nonzero value of
\* the solution at the position of x[j=1,i=0,rho=0,l=0] under that key, next
\* to a different value stored for y[0,0,0].
Witness_C11 ==
    /\ PlanBuilt
    /\ planner.status = 0
    /\ indices["j"] = 2
    /\ <<"x", 1, 0, 0, 0>> \in DOMAIN provider
    /\ provider[<<"x", 1, 0, 0, 0>>] = planner.res_x[Pos("x", Kw4(1, 0, 0, 0))]
    /\ provider[<<"x", 1, 0, 0, 0>>] > 0
    /\ provider[<<"y", 0, 0, 0>>] # provider[<<"x", 1, 0, 0, 0>>]

\* C12: the planner of optimization/data_amount_planning.py builds exactly
\* one equality row per (j, rho, l) for which an x_eq value is defined in the
\* data; a combination with no defined x_eq produces no row, and is not turned
\* into a row with right-hand side 0.
Claim_C12 ==
    PlanBuilt =>
        /\ \A k \in DOMAIN planner.keys :
              <<"x_eq">> \o planner.keys[k] \in DOMAIN provider
        /\ \A key \in XEqKeys(indices) :
              key \in DOMAIN provider =>
                 Cardinality({k \in DOMAIN planner.keys :
                                 <<"x_eq">> \o planner.keys[k] = key}) = 1

\* the capacity c at the indices kw: the stored value when there is one,
\* else what the data interface of the planner answers
Capacity(c, kw) ==
    IF indices_dict_to_plain(c, kw) \in DOMAIN provider
    THEN provider[indices_dict_to_plain(c, kw)]
    ELSE planner_get(c, kw).val

\* C13: in the bounds list built by the planner of
\* optimization/data_amount_planning.py every position has lower bound 0; the
\* upper bound at the position of x[idx], y[idx], g[idx] is psi[idx], v[idx],
\* phi[idx] at the same indices; the upper bound at every z position is
\* +infinity.
Thm_C13 ==
    PlanBuilt =>
        /\ DOMAIN planner.bnd = 0..(get_row_len - 1)
        /\ \A p \in DOMAIN planner.bnd : planner.bnd[p][1] = 0
        /\ \A j \in 0..(indices["j"] - 1), rho \in 0..(indices["rho"] - 1),
              l \in 0..(indices["l"] - 1) :
              /\ planner.bnd[Pos("y", Kw3(j, rho, l))][2] = Capacity("v", Kw3(j, rho, l))
              /\ planner.bnd[Pos("g", Kw3(j, rho, l))][2] = Capacity("phi", Kw3(j, rho, l))
              /\ planner.bnd[Pos("z", Kw3(j, rho, l))][2] = Inf
              /\ \A i \in 0..(indices["i"] - 1) :
                    planner.bnd[Pos("x", Kw4(j, i, rho, l))][2]
                        = Capacity("psi", Kw4(j, i, rho, l))

\* C13 witness: a built planner on two nodes whose stored psi[1,0,0,0] = 2 is
\* the upper bound of x[1,0,0,0], next to a different stored psi[0,1,0,0] and
\* an unbounded z.
Witness_C13 ==
    /\ PlanBuilt
    /\ indices["j"] = 2
    /\ <<"psi", 1, 0, 0, 0>> \in DOMAIN provider
    /\ provider[<<"psi", 1, 0, 0, 0>>] = 2
    /\ provider[<<"psi", 0, 1, 0, 0>>] # 2
    /\ planner.bnd[Pos("x", Kw4(1, 0, 0, 0))] = <<0, 2>>
    /\ planner.bnd[Pos("z", Kw3(0, 0, 0))] = <<0, Inf>>

\* C14: for a network whose source node 0 has external input A, no storage
\* and no processing capacity, a channel of capacity A to node 1 whose
\* processing capacity is A, and equal positive weights, the plan written by
\* ProcessedDataAmountMaximizationSolver.run has the transfer x[0,1,0,0]
\* equal to A and the drop z[0,0,0] at the source equal to 0, once the test's
\* construction and run of the solver have ended.
Claim_C14 ==
    (/\ planner.raised = "TypeError"
     /\ \E a \in 1..MaxAmount : \A k \in DOMAIN ScenarioData(indices, a) :
           k \in DOMAIN provider /\ provider[k] = ScenarioData(indices, a)[k])
    => /\ <<"x", 0, 1, 0, 0>> \in DOMAIN provider
       /\ provider[<<"x", 0, 1, 0, 0>>] = provider[<<"x_eq", 0, 0, 0>>]
       /\ <<"z", 0, 0, 0>> \in DOMAIN provider
       /\ provider[<<"z", 0, 0, 0>>] = 0

(***************************************************************************)
(* Part III: the simulation of twoopt/simulation.py.                       *)
(***************************************************************************)
Min(a, b) == IF a <= b THEN a ELSE b
Max(a, b) == IF a >= b THEN a ELSE b

\* ut.clamp(val, vmin, vmax): max(min(val, vmax), vmin)
clamp(val, vmin, vmax) == Max(Min(val, vmax), vmin)

\* a container or attribute that is None
None == <<>>

\* HelperVirt.indices_container_iter_plain: schema.radix_map_iter("j", "rho", "l")
ContainerKeys ==
    {<<j, rho, l>> : j \in 0..(indices["j"] - 1), rho \in 0..(indices["rho"] - 1),
                     l \in 0..(indices["l"] - 1)}

\* the keys of Simulation.containers_processed: schema.radix_map_iter("j", "rho")
ProcessedKeys ==
    {<<j, rho>> : j \in 0..(indices["j"] - 1), rho \in 0..(indices["rho"] - 1)}

\* HelperVirt.indices_transfer_iter_plain: every (j, i, rho, l)
TransferKeys ==
    {<<j, i, rho, l>> : j \in 0..(indices["j"] - 1), i \in 0..(indices["i"] - 1),
                        rho \in 0..(indices["rho"] - 1), l \in 0..(indices["l"] - 1)}

\* HelperVirt.indices_transfer_is_connected
indices_transfer_is_connected(j, i, rho, l) ==
    IF i = j
    THEN FALSE
    ELSE provider[<<"mm_psi", j, i, l>>] > 0 /\ provider[<<"m_psi", j, i, rho, l>>] > 0

\* HelperVirt.indices_transfer_to_indices_container_sender
indices_transfer_to_indices_container_sender(j, i, rho, l) == <<j, rho, l>>

\* HelperVirt.indices_transfer_to_indices_container_receiver
indices_transfer_to_indices_container_receiver_own(j, i, rho, l) == <<j, rho, l>>
indices_transfer_to_indices_container_receiver(j, i, rho, l) == <<i, rho, l>>

\* the data a simulation is built from: every planned amount x, y, g, z is p,
\* every intensity mm_psi, mm_v, mm_phi is u, every fraction m_* is 1
SimData(b, p, u) ==
    LET J == 0..(b["j"] - 1)
        R == 0..(b["rho"] - 1)
        L == 0..(b["l"] - 1)
        planned == {<<"x", j, i, rho, l>> : j \in J, i \in J, rho \in R, l \in L}
                   \cup {<<v, j, rho, l>> : v \in {"y", "g", "z"}, j \in J, rho \in R, l \in L}
        upper == {<<"mm_psi", j, i, l>> : j \in J, i \in J, l \in L}
                 \cup {<<v, j, l>> : v \in {"mm_v", "mm_phi"}, j \in J, l \in L}
        fraction == {<<"m_psi", j, i, rho, l>> : j \in J, i \in J, rho \in R, l \in L}
                    \cup {<<v, j, rho, l>> : v \in {"m_v", "m_phi"}, j \in J, rho \in R, l \in L}
    IN  [k \in planned \cup upper \cup fraction |->
            IF k \in planned THEN p ELSE IF k \in upper THEN u ELSE 1]

\* the attributes _proc_step / __amount_proc before the first step()
Unset == [set |-> FALSE, val |-> 0]

\* Operation.__init__ and __post_init__: the fields every operation has
Operation(cls, plain, val_l, planned, fraction, upper, lower, noise_type, cin, cout, cproc) ==
    [cls |-> cls, indices_planned_plain |-> plain, val_l |-> val_l,
     amount_planned |-> planned, proc_intensity_fraction |-> fraction,
     proc_intensity_upper |-> upper, proc_intensity_lower |-> lower,
     proc_noise_type |-> noise_type, amount_processed |-> 0,
     container_input |-> cin, container_output |-> cout, container_processed |-> cproc,
     proc |-> Unset, committed |-> TRUE]

\* Simulation._init_make_transfer_ops
init_make_transfer_op(j, i, rho, l) ==
    Operation("TransferOp", <<j, i, rho, l>>, l, provider[<<"x", j, i, rho, l>>],
              provider[<<"m_psi", j, i, rho, l>>], provider[<<"mm_psi", j, i, l>>], 0,
              "gauss", indices_transfer_to_indices_container_sender(j, i, rho, l),
              indices_transfer_to_indices_container_receiver(j, i, rho, l), None)

\* Simulation._init_make_store_ops
init_make_store_op(j, rho, l) ==
    Operation("StoreOp", <<j, rho, l>>, l, provider[<<"y", j, rho, l>>],
              provider[<<"m_v", j, rho, l>>], provider[<<"mm_v", j, l>>],
              -provider[<<"mm_v", j, l>>], "None", <<j, rho, l>>, None, <<j, rho>>)

\* Simulation._init_make_process_ops
init_make_process_op(j, rho, l) ==
    Operation("ProcessOp", <<j, rho, l>>, l, provider[<<"g", j, rho, l>>],
              provider[<<"m_phi", j, rho, l>>], provider[<<"mm_phi", j, l>>], 0,
              "None", <<j, rho, l>>, None, None)

\* the class Simulation._init_make_drop_ops instantiates
drop_op_class == "ProcessOp"

\* Simulation._init_make_drop_ops; the helper's drop intensity is the input du
init_make_drop_op(j, rho, l, du) ==
    Operation(drop_op_class, <<j, rho, l>>, l, provider[<<"z", j, rho, l>>], 1, du, 0,
              "None", <<j, rho, l>>, None, None)

\* Simulation._init_generate_ops; the helper's planned amount and intensity are
\* the input gu
init_generate_op(j, rho, l, gu) ==
    Operation("GenerateOp", <<j, rho, l>>, l, gu, 1, gu, 0, "None", <<j, rho, l>>,
              None, None)

\* the keys of the five operation dicts, tagged with the dict they live in
OpIds ==
    {<<"generate">> \o k : k \in ContainerKeys}
    \cup {<<"process">> \o k : k \in ContainerKeys}
    \cup {<<"store">> \o k : k \in ContainerKeys}
    \cup {<<"drop">> \o k : k \in ContainerKeys}
    \cup {<<"transfer">> \o k :
             k \in {t \in TransferKeys : indices_transfer_is_connected(t[1], t[2], t[3], t[4])}}

\* Simulation.__post_init__: the operations
post_init_ops(gu, du) ==
    [id \in OpIds |->
        CASE id[1] = "transfer" -> init_make_transfer_op(id[2], id[3], id[4], id[5])
          [] id[1] = "store" -> init_make_store_op(id[2], id[3], id[4])
          [] id[1] = "process" -> init_make_process_op(id[2], id[3], id[4])
          [] id[1] = "drop" -> init_make_drop_op(id[2], id[3], id[4], du)
          [] id[1] = "generate" -> init_generate_op(id[2], id[3], id[4], gu)]

generate_ops == {id \in DOMAIN ops : id[1] = "generate"}
process_ops == {id \in DOMAIN ops : id[1] = "process"}
store_ops == {id \in DOMAIN ops : id[1] = "store"}
transfer_ops == {id \in DOMAIN ops : id[1] = "transfer"}
drop_ops == {id \in DOMAIN ops : id[1] = "drop"}

\* Simulation.payload_ops_shuffled, as a set
payload_ops_shuffled == process_ops \cup transfer_ops \cup store_ops

\* Simulation.teardown_ops, as a set
teardown_ops == process_ops \cup store_ops

\* Operation.amount_input
amount_input(o) == containers[o.container_input]

\* Operation.amount_stash, overridden by StoreOp
amount_stash(o) == IF o.cls = "StoreOp" THEN o.amount_processed ELSE 0

\* Operation.amount_diff_planned
amount_diff_planned(o) == o.amount_planned - o.amount_processed

\* the values random.gauss is taken to return, rounded to whole amounts
Gauss == {-1, 0, 1}

\* Operation.noise: 0.0 without a noise type; random.gauss(0, sigma) otherwise,
\* which is 0 for sigma = 0
noise(o) ==
    IF o.proc_noise_type = "None"
    THEN {0}
    ELSE IF amount_diff_planned(o) > 0
    THEN (IF o.proc_intensity_upper = 0 THEN {0} ELSE Gauss)
    ELSE (IF o.proc_intensity_lower = 0 THEN {0} ELSE Gauss)

\* an amount that is limited by the intensities only, not by what the input
\* container holds or by what has been stored
amount_proc_available_unclamped(o, nz) ==
    LET diff_planned == amount_diff_planned(o)
        amount_step_lower ==
            IF o.proc_intensity_lower = 0
            THEN 0
            ELSE (o.proc_intensity_lower * o.proc_intensity_fraction + nz) * sim_global.dt
        amount_step_upper ==
            (o.proc_intensity_upper * o.proc_intensity_fraction + nz) * sim_global.dt
    IN  clamp(diff_planned, amount_step_lower, amount_step_upper)

\* Operation.amount_proc_available, nz being what noise() returned
amount_proc_available(o, nz) ==
    LET diff_planned == amount_diff_planned(o)
        amount_step_lower ==
            IF o.proc_intensity_lower = 0
            THEN 0
            ELSE (o.proc_intensity_lower * o.proc_intensity_fraction + nz) * sim_global.dt
        amount_step_upper ==
            (o.proc_intensity_upper * o.proc_intensity_fraction + nz) * sim_global.dt
        amount_step == clamp(diff_planned, amount_step_lower, amount_step_upper)
    IN  clamp(amount_step, -amount_stash(o), amount_input(o))

\* StoreOp.step, first statement: the total the step starts from
store_step_start_own(o) == o.amount_processed
store_step_start(o) == containers_processed[o.container_processed]

\* what a call of a method of operation id leaves in ev
Event(id, method, moved, start, raised) ==
    [op |-> id, method |-> method, first |-> ~ops[id].proc.set,
     in_before |-> amount_input(ops[id]),
     out_before |-> IF ops[id].container_output = None THEN 0
                    ELSE containers[ops[id].container_output],
     moved |-> moved, start |-> start,
     processed_before |-> ops[id].amount_processed, raised |-> raised]

Called == hist' = [hist EXCEPT !.calls = @ + 1]

\* GenerateOp.step
GenerateOp_step(id) ==
    /\ containers' = [containers EXCEPT ![ops[id].container_input] =
                                            ops[id].proc_intensity_upper]
    /\ ev' = Event(id, "step", ops[id].proc_intensity_upper, ops[id].amount_processed, "")
    /\ Called
    /\ UNCHANGED <<ops, containers_processed>>

\* TransferOp.step
TransferOp_step(id) ==
    \E nz \in noise(ops[id]) :
        LET proc_step == amount_proc_available(ops[id], nz)
        IN  /\ containers' = [containers EXCEPT ![ops[id].container_input] = @ - proc_step]
            /\ ops' = [ops EXCEPT ![id].proc = [set |-> TRUE, val |-> proc_step]]
            /\ ev' = Event(id, "step", proc_step, ops[id].amount_processed, "")
            /\ Called
            /\ UNCHANGED containers_processed

\* StoreOp.step
StoreOp_step(id) ==
    LET o == [ops[id] EXCEPT !.amount_processed = store_step_start(ops[id])]
        amount_proc == amount_proc_available(o, 0)
    IN  /\ containers' = [containers EXCEPT ![o.container_input] = @ - amount_proc]
        /\ ops' = [ops EXCEPT ![id].amount_processed = o.amount_processed + amount_proc,
                              ![id].proc = [set |-> TRUE, val |-> amount_proc],
                              ![id].committed = FALSE]
        /\ ev' = Event(id, "step", amount_proc, o.amount_processed, "")
        /\ Called
        /\ UNCHANGED containers_processed

\* ProcessOp.step
ProcessOp_step(id) ==
    LET amount_proc == amount_proc_available(ops[id], 0)
    IN  /\ containers' = [containers EXCEPT ![ops[id].container_input] = @ - amount_proc]
        /\ ops' = [ops EXCEPT ![id].amount_processed = @ + amount_proc]
        /\ ev' = Event(id, "step", amount_proc, ops[id].amount_processed, "")
        /\ Called
        /\ UNCHANGED containers_processed

\* DropOp.step
DropOp_step(id) ==
    /\ ops' = [ops EXCEPT ![id].amount_processed = @ + amount_input(ops[id])]
    /\ containers' = [containers EXCEPT ![ops[id].container_input] = 0]
    /\ ev' = Event(id, "step", amount_input(ops[id]), ops[id].amount_processed, "")
    /\ Called
    /\ UNCHANGED containers_processed

\* op.step() on an operation of the simulation, dispatched on its class
OpStep(id) ==
    /\ hist.calls < MaxCalls
    /\ CASE ops[id].cls = "GenerateOp" -> GenerateOp_step(id)
         [] ops[id].cls = "TransferOp" -> TransferOp_step(id)
         [] ops[id].cls = "StoreOp" -> StoreOp_step(id)
         [] ops[id].cls = "ProcessOp" -> ProcessOp_step(id)
         [] ops[id].cls = "DropOp" -> DropOp_step(id)
    /\ UNCHANGED <<indices, variables, call, provider, planner, sim_global, tick, di, ga>>

\* a method call that raises AttributeError and changes nothing
Raises(id, method) ==
    /\ ev' = Event(id, method, 0, ops[id].amount_processed, "AttributeError")
    /\ Called
    /\ UNCHANGED <<ops, containers, containers_processed>>

\* TransferOp.step_teardown; self._proc_step exists only after a step()
TransferOp_step_teardown(id) ==
    IF ~ops[id].proc.set
    THEN Raises(id, "step_teardown")
    ELSE /\ ops' = [ops EXCEPT ![id].amount_processed = @ + ops[id].proc.val,
                               ![id].proc = [set |-> TRUE, val |-> 0]]
         /\ containers' = [containers EXCEPT ![ops[id].container_output] = ops[id].proc.val]
         /\ ev' = Event(id, "step_teardown", ops[id].proc.val, ops[id].amount_processed, "")
         /\ Called
         /\ UNCHANGED containers_processed

\* StoreOp.step_teardown; self.__amount_proc exists only after a step()
StoreOp_step_teardown(id) ==
    IF ~ops[id].proc.set
    THEN Raises(id, "step_teardown")
    ELSE LET o == ops[id]
             back == IF o.proc.val < 0 THEN clamp(o.proc.val, -amount_input(o), 0) ELSE 0
             amount_proc == IF o.proc.val < 0 THEN back ELSE o.proc.val
             amount_processed == o.amount_processed - back
         IN  /\ containers' = [containers EXCEPT ![o.container_input] = @ + back]
             /\ ops' = [ops EXCEPT ![id].amount_processed = amount_processed,
                                   ![id].proc = [set |-> TRUE, val |-> amount_proc],
                                   ![id].committed = TRUE]
             /\ containers_processed' =
                    [containers_processed EXCEPT ![o.container_processed] = amount_processed]
             /\ hist' = [hist EXCEPT !.calls = @ + 1,
                                     !.last_store[o.container_processed] = o.val_l]
             /\ ev' = Event(id, "step_teardown", back, o.amount_processed, "")

\* op.step_teardown() on an operation of the simulation; the classes other than
\* TransferOp and StoreOp have no such method
OpStepTeardown(id) ==
    /\ hist.calls < MaxCalls
    /\ CASE ops[id].cls = "TransferOp" -> TransferOp_step_teardown(id)
         [] ops[id].cls = "StoreOp" -> StoreOp_step_teardown(id)
         [] OTHER -> Raises(id, "step_teardown")
    /\ UNCHANGED <<indices, variables, call, provider, planner, sim_global, tick, di, ga>>

\* the four loops of Simulation.step, in their order; each iterates dict.items()
\* (payload_ops_shuffled and teardown_ops are lists of items too)
step_loops == <<generate_ops, payload_ops_shuffled, teardown_ops, drop_ops>>

\* SimGlobal.t_inc: self.t += self.dt, then the loop condition calls
\* self.helper_virt.tl(self.l); linsmat.HelperVirt has no attribute tl (and
\* the default helper_virt is None), so the call raises AttributeError with t
\* advanced and l unchanged
t_inc == [sim_global EXCEPT !.t = @ + sim_global.dt]
t_inc_raised == "AttributeError"

\* Simulation.step: the loop variable op is a (key, operation) pair, so the
\* first op.is_current_l() raises AttributeError before any operation acts;
\* with four empty dicts the loops do nothing and sim_global.t_inc() runs
Step ==
    /\ hist.calls < MaxCalls
    /\ IF \E k \in DOMAIN step_loops : step_loops[k] # {}
       THEN /\ tick' = [called |-> TRUE, raised |-> "AttributeError", log |-> <<>>]
            /\ UNCHANGED sim_global
       ELSE /\ tick' = [called |-> TRUE, raised |-> t_inc_raised, log |-> <<>>]
            /\ sim_global' = t_inc
    /\ Called
    /\ UNCHANGED <<indices, variables, call, provider, planner, containers,
                   containers_processed, ops, ev, di, ga>>

\* Simulation.ops_all: functools.reduce concatenates the five dict.items()
\* into one list of (key, operation) pairs, and sum(...) of that list starts
\* from the integer 0: 0 + (key, operation) raises TypeError, and with five
\* empty dicts the for loop of reset iterates the integer 0, TypeError as well
ops_all_raised == "TypeError"

\* Simulation.reset: sim_global.t = 0.0, sim_global.l = 0, then the loop over
\* self.ops_all(), which raises before any Operation.reset is called
Reset ==
    /\ hist.calls < MaxCalls
    /\ hist.reset = ""
    /\ sim_global' = [sim_global EXCEPT !.t = 0, !.l = 0]
    /\ hist' = [hist EXCEPT !.calls = @ + 1, !.reset = ops_all_raised]
    /\ UNCHANGED <<indices, variables, call, provider, planner, containers,
                   containers_processed, ops, tick, ev, di, ga>>

\* the simulations tried: one virtualized environment, a small network,
\* uniform plan data
InitSim ==
    /\ indices \in {b \in SchemaBounds : b["rho"] = 1 /\ b["j"] + b["l"] <= MaxSimSize}
    /\ variables = <<>>
    /\ call = NoCall
    /\ planner = NoPlanner
    /\ provider \in {SimData(indices, p, u) : p \in 0..MaxAmount, u \in 0..MaxAmount}
    /\ sim_global = SimGlobalInit
    /\ containers = [k \in ContainerKeys |-> 0]
    /\ containers_processed = [k \in ProcessedKeys |-> 0]
    /\ ops \in {post_init_ops(gu, du) : gu \in 1..MaxAmount, du \in {0, MaxAmount}}
    /\ tick = NoTick
    /\ ev = NoEvent
    /\ hist = [calls |-> 0, last_store |-> [k \in ProcessedKeys |-> -1], reset |-> ""]
    /\ di = NoDataInterface
    /\ ga = NoGa

NextSim ==
    \/ Step
    \/ Reset
    \/ \E id \in DOMAIN ops : OpStep(id)
    \/ \E id \in teardown_ops \cup transfer_ops : OpStepTeardown(id)

SpecSim == InitSim /\ [][NextSim]_vars

(***************************************************************************)
(* A lone TransferOp driven as in TestSim.test_transfer_op (test_sim.py):  *)
(* two free containers, and a loop that refills the input container and    *)
(* calls step() and step_teardown().                                       *)
(***************************************************************************)
\* the key the transfer operation and its two containers are kept under
test_transfer == <<"transfer", 0, 1, 0, 0>>
test_container == <<0, 0, 0>>
test_container_output == <<1, 0, 0>>

\* sml.TransferOp(...): amount_planned = fraction * upper * 1000 in the test,
\* fraction * upper * ticks here; proc_intensity_lower = 0, noise "gauss"
test_transfer_op(upper, fraction, ticks) ==
    Operation("TransferOp", <<0, 1, 0, 0>>, 0, fraction * upper * ticks, fraction, upper,
              0, "gauss", test_container, test_container_output, None)

\* chunk = proc_intensity_upper * proc_intensity_fraction * 2
chunk(o) == o.proc_intensity_upper * o.proc_intensity_fraction * 2

InitTransfer ==
    /\ indices = [n \in {"j", "i", "rho", "l"} |-> 0]
    /\ variables = <<>>
    /\ call = NoCall
    /\ planner = NoPlanner
    /\ provider = <<>>
    /\ sim_global = SimGlobalInit
    /\ containers = [k \in {test_container, test_container_output} |-> 0]
    /\ containers_processed = <<>>
    /\ ops \in {[id \in {test_transfer} |-> test_transfer_op(u, 1, n)] :
                   u \in 1..MaxAmount, n \in 1..MaxPlanTicks}
    /\ tick = NoTick
    /\ ev = NoEvent
    /\ hist = [calls |-> 0, last_store |-> <<>>, reset |-> ""]
    /\ di = NoDataInterface
    /\ ga = NoGa

\* the loop body, first statement: container.amount = chunk
TestRefill ==
    /\ hist.calls < MaxCalls
    /\ ev.method \in {"", "step_teardown"}
    /\ containers' = [containers EXCEPT ![test_container] = chunk(ops[test_transfer])]
    /\ ev' = Event(test_transfer, "refill", chunk(ops[test_transfer]),
                   ops[test_transfer].amount_processed, "")
    /\ UNCHANGED <<indices, variables, call, provider, planner, sim_global,
                   containers_processed, ops, tick, hist, di, ga>>

\* the loop body, second statement: transfer.step()
TestStep == ev.method = "refill" /\ OpStep(test_transfer)

\* the loop body, third statement: transfer.step_teardown()
TestStepTeardown == ev.method = "step" /\ OpStepTeardown(test_transfer)

NextTransfer == TestRefill \/ TestStep \/ TestStepTeardown

SpecTransfer == InitTransfer /\ [][NextTransfer]_vars

(***************************************************************************)
(* A lone StoreOp driven as in TestSim.test_store_op (test_sim.py): an      *)
(* input container that the loop refills, a carry-over container of its    *)
(* own, and a processed total that the test sets above the plan.           *)
(***************************************************************************)
test_store == <<"store", 0, 0, 0>>
test_container_processed == <<0, 0>>

\* sml.StoreOp(...): proc_intensity_lower = -intensity_upper, fraction 1.0, no
\* noise type
test_store_op(planned, upper) ==
    Operation("StoreOp", <<0, 0, 0>>, 0, planned, 1, upper, -upper, "None",
              test_container, None, test_container_processed)

\* the upper intensities tried: even, so that intensity_upper / 2 is exact
test_store_uppers == {2 * k : k \in 1..MaxAmount}

InitStore ==
    /\ indices = [n \in {"j", "i", "rho", "l"} |-> 0]
    /\ variables = <<>>
    /\ call = NoCall
    /\ planner = NoPlanner
    /\ provider = <<>>
    /\ sim_global = SimGlobalInit
    /\ containers = [k \in {test_container} |-> 0]
    /\ containers_processed = [k \in {test_container_processed} |-> 0]
    /\ ops \in {[id \in {test_store} |-> test_store_op(p, u)] :
                   p \in {u \div 2 : u \in test_store_uppers} \cup test_store_uppers,
                   u \in test_store_uppers}
    /\ tick = NoTick
    /\ ev = NoEvent
    /\ hist = [calls |-> 0, last_store |-> [k \in {test_container_processed} |-> -1],
               reset |-> ""]
    /\ di = NoDataInterface
    /\ ga = NoGa

\* both loops, first statement: container_input.amount = intensity_upper, or
\* intensity_upper / 2 (it also overwrites the 0 the previous pass left)
TestStoreRefill ==
    /\ hist.calls < MaxCalls
    /\ ev.method \in {"", "step_teardown", "set"}
    /\ \E amount \in {ops[test_store].proc_intensity_upper,
                       ops[test_store].proc_intensity_upper \div 2} :
          /\ containers' = [containers EXCEPT ![test_container] = amount]
          /\ ev' = Event(test_store, "refill", amount, ops[test_store].amount_processed, "")
    /\ UNCHANGED <<indices, variables, call, provider, planner, sim_global,
                   containers_processed, ops, tick, hist, di, ga>>

\* store_op.step()
TestStoreStep == ev.method = "refill" /\ OpStep(test_store)

\* the second loop, between step() and step_teardown():
\* container_input.amount /= 2, when the half is a whole amount; the record of
\* the step is kept
TestStoreHalve ==
    /\ ev.method = "step"
    /\ containers[test_container] % 2 = 0
    /\ containers' = [containers EXCEPT ![test_container] = @ \div 2]
    /\ ev' = [ev EXCEPT !.method = "halve"]
    /\ UNCHANGED <<indices, variables, call, provider, planner, sim_global,
                   containers_processed, ops, tick, hist, di, ga>>

\* store_op.step_teardown()
TestStoreStepTeardown == ev.method \in {"step", "halve"} /\ OpStepTeardown(test_store)

\* between the loops: store_op.amount_processed = amount_processed_initial, a
\* value above the plan
TestStoreSet ==
    /\ ev.method = "step_teardown"
    /\ \E excess \in 1..(ops[test_store].proc_intensity_upper + 1) :
          /\ ops' = [ops EXCEPT ![test_store].amount_processed =
                                    ops[test_store].amount_planned + excess]
          /\ ev' = Event(test_store, "set", excess, ops[test_store].amount_processed, "")
    /\ UNCHANGED <<indices, variables, call, provider, planner, sim_global, containers,
                   containers_processed, tick, hist, di, ga>>

NextStore ==
    TestStoreRefill \/ TestStoreStep \/ TestStoreHalve \/ TestStoreStepTeardown
        \/ TestStoreSet

SpecStore == InitStore /\ [][NextStore]_vars

(***************************************************************************)
(* Claims about the simulation.                                            *)
(***************************************************************************)
\* Operation.is_current_l
is_current_l(o) == sim_global.l = o.val_l

\* the phase of a tick an entry <<method, operation>> of the tick log belongs to
LogPhase(e) ==
    IF e[2][1] = "generate" THEN 1
    ELSE IF e[2][1] = "drop" THEN 4
    ELSE IF e[1] = "step" THEN 2
    ELSE 3

\* the operations of dict d that a tick has to act on
CurrentOps(d) == {id \in d : is_current_l(ops[id])}

\* C6: a tick of Simulation.step lets every generation operation of the
\* current interval act before any transfer, store or process operation
\* computes its amount, completes every compute step before any teardown, and
\* lets every drop operation act after all teardowns.
Claim_C6 ==
    tick.called =>
        /\ tick.raised = ""
        /\ \A id \in CurrentOps(generate_ops) \cup CurrentOps(payload_ops_shuffled)
                     \cup CurrentOps(drop_ops) :
               \E k \in DOMAIN tick.log : tick.log[k] = <<"step", id>>
        /\ \A a, b \in DOMAIN tick.log :
               a < b => LogPhase(tick.log[a]) <= LogPhase(tick.log[b])

\* the last call was method m of an operation of dict kind and did not raise
Did(kind, m) == ev.method = m /\ ev.raised = "" /\ ev.op[1] = kind

\* C7: every amount a transfer operation removes from its input container is
\* added to its destination container, and nothing already in that container
\* is lost (the premise of the simulated balance generated = y^ - y^prev + g^
\* + z^ + outflow - inflow).
Claim_C7 ==
    /\ Did("transfer", "step") =>
           containers[ops[ev.op].container_input] = ev.in_before - ev.moved
    /\ Did("transfer", "step_teardown") =>
           containers[ops[ev.op].container_output] = ev.out_before + ev.moved

\* the containers operation id writes in a phase of the tick: its input
\* container in the generation, compute and drop phases; in the teardown
\* phase a store operation writes its input container (give-back) and its
\* carry-over container, a transfer operation its output container
Writes(id, phase) ==
    LET o == ops[id]
    IN  CASE phase = 1 -> IF id \in generate_ops THEN {o.container_input} ELSE {}
          [] phase = 2 -> IF id \in payload_ops_shuffled THEN {o.container_input} ELSE {}
          [] phase = 3 -> IF id \in store_ops
                          THEN {o.container_input, o.container_processed}
                          ELSE IF id \in transfer_ops THEN {o.container_output} ELSE {}
          [] phase = 4 -> IF id \in drop_ops THEN {o.container_input} ELSE {}

Built == DOMAIN ops # {}

StoreOpAt(j, rho, l) == ops[<<"store", j, rho, l>>]

Claim_C10 ==
    Did("drop", "step") =>
        /\ containers[ops[ev.op].container_input] = 0
        /\ ops[ev.op].amount_processed = ev.processed_before + ev.in_before

\* C18: a transfer operation for (j, i, rho, l) exists in the simulation if
\* and only if j # i and the channel capacity mm_psi[j,i,l], the allocation
\* fraction m_psi[j,i,rho,l] and the planned amount x[j,i,rho,l] are all
\* strictly positive.
Claim_C18 ==
    Built =>
        \A t \in TransferKeys :
            (<<"transfer">> \o t \in DOMAIN ops)
                <=> /\ t[1] # t[2]
                    /\ provider[<<"mm_psi", t[1], t[2], t[4]>>] > 0
                    /\ provider[<<"m_psi", t[1], t[2], t[3], t[4]>>] > 0
                    /\ provider[<<"x", t[1], t[2], t[3], t[4]>>] > 0

\* C19: after Simulation.reset(), reached from any state produced by any
\* number of ticks, simulated time t is 0, interval l is 0, every Container
\* (the (j, rho, l) input containers and the (j, rho) carry-over containers)
\* has amount 0 and every operation's processed total is 0.
Claim_C19 ==
    [][(hist.reset = "" /\ hist'.reset # "") =>
          /\ sim_global'.t = 0
          /\ sim_global'.l = 0
          /\ \A k \in DOMAIN containers' : containers'[k] = 0
          /\ \A k \in DOMAIN containers_processed' : containers_processed'[k] = 0
          /\ \A id \in DOMAIN ops' : ops'[id].amount_processed = 0]_vars

\* C20: for a TransferOp with planned amount P, upper intensity U, fraction f
\* and lower intensity 0 whose input container is refilled to a fixed positive
\* amount before each tick, after any number N >= 1 of step() and
\* step_teardown() pairs the processed total is strictly positive and never
\* exceeds P plus one tick's rate bound, and the output container holds a
\* positive amount.
Claim_C20 ==
    Did("transfer", "step_teardown") =>
        LET o == ops[ev.op]
        IN  /\ o.amount_processed > 0
            /\ o.amount_processed <= o.amount_planned
                   + o.proc_intensity_upper * o.proc_intensity_fraction * sim_global.dt
            /\ containers[o.container_output] > 0

\* C21: for a StoreOp with planned amount P and intensity bounds [-U, U], while
\* processed < P each tick stores at most U*dt and never more than the input
\* holds, reaching exactly P when enough input is supplied; once its processed
\* total is set above P, each following step() and step_teardown() moves
\* excess from the stored total back into the input container at no more than
\* U*dt per tick, so that the processed total strictly decreases from the
\* exceeded value and never falls below P.
Claim_C21 ==
    [][LET o == ops[test_store]
           P == o.amount_planned
           rate == o.proc_intensity_upper * o.proc_intensity_fraction * sim_global.dt
           before == o.amount_processed
           after == ops'[test_store].amount_processed
           input == containers[test_container]
       IN  /\ (ev.method = "refill" /\ ev'.method = "step" /\ before < P) =>
                 /\ after - before <= rate
                 /\ after - before <= input
                 /\ after <= P
                 /\ (input >= P - before /\ rate >= P - before) => after = P
           /\ (ev.method = "refill" /\ ev'.method = "step" /\ before > P) =>
                 /\ after < before
                 /\ after >= P
                 /\ before - after <= rate
                 /\ containers'[test_container] = input + (before - after)
           /\ (ev.method \in {"step", "halve"} /\ ev'.method = "step_teardown"
                   /\ ev.processed_before > P) =>
                 /\ after < ev.processed_before
                 /\ after >= P]_vars

(***************************************************************************)
(* Part IV: the genetic optimisation of twoopt/sim_opt.py.                 *)
(*                                                                         *)
(* Gene values are floats in the program; the model computes them as exact *)
(* fractions <<numerator, denominator>> in lowest terms.                   *)
(***************************************************************************)
RECURSIVE GCD(_, _)
GCD(a, b) == IF b = 0 THEN a ELSE GCD(b, a % b)

Frac(n, d) == <<n \div GCD(n, d), d \div GCD(n, d)>>
FracAdd(a, b) == Frac(a[1] * b[2] + b[1] * a[2], a[2] * b[2])
FracMul(a, b) == Frac(a[1] * b[1], a[2] * b[2])
FracInv(a) == Frac(a[2], a[1])

\* GaGeneVirt._virt_helper_as_index_var_list, as the variable mapping of
\* linsmat.RowIndex.make_from_schema(schema, variables)
GaVariables ==
    << [name |-> "m_psi", idx |-> IdxX], [name |-> "m_v", idx |-> IdxY],
       [name |-> "m_phi", idx |-> IdxY] >>

\* the positions of a gene: range(row_index.get_row_len()); a gene is kept as
\* the sequence of its values, position pos at place pos + 1
GenePositions == 0..(get_row_len - 1)

\* normalize: the indices of var other than rho
NonRho(v) == SelectSeq(VarIndices(v), LAMBDA i : i # "rho")

\* normalize: schema.radix_map_iter_dict(*var_indices), as a list of dicts
radix_map_iter_dict(names) ==
    LET prod == radix_cartesian_product([k \in DOMAIN names |-> indices[names[k]]])
    IN  [t \in DOMAIN prod |->
            [n \in Range(names) |-> prod[t][CHOOSE k \in DOMAIN names : names[k] = n]]]

\* row_index.get_pos(var, rho=rho, **indices)
GroupPos(v, kw, rho) == Pos(v, Merge([n \in {"rho"} |-> rho], kw))

\* the places of the gene that one pass of the loops over rho visits, in order
GroupPlaces(v, kw) ==
    SubSeq([r \in 1..indices["rho"] |-> GroupPos(v, kw, r - 1) + 1], 1, indices["rho"])

\* the passes of the two outer loops of normalize, in their order, each with
\* the places it visits
GaGroups ==
    Flatten([k \in DOMAIN variables |->
                LET dicts == radix_map_iter_dict(NonRho(variables[k].name))
                IN  SubSeq([t \in DOMAIN dicts |-> GroupPlaces(variables[k].name, dicts[t])],
                           1, Len(dicts))])

\* normalize, "Accumulate sum": s after the first n places of a pass
RECURSIVE GroupSum(_, _, _)
GroupSum(gene, places, n) ==
    IF n = 0 THEN <<0, 1>> ELSE FracAdd(GroupSum(gene, places, n - 1), gene[places[n]])

\* normalize, "Normalize members": self[pos] *= frac with frac = 1 / s
group_scaled(gene, places) ==
    LET frac == FracInv(GroupSum(gene, places, Len(places)))
    IN  SubSeq([place \in DOMAIN gene |->
                   IF place \in Range(places) THEN FracMul(gene[place], frac)
                   ELSE gene[place]], 1, Len(gene))

\* GaGeneVirt.normalize over the remaining passes: 1 / s raises
\* ZeroDivisionError when a sum is 0, which leaves the earlier groups
\* normalized and the other ones as they were
RECURSIVE normalize(_, _)
normalize(gene, groups) ==
    IF groups = <<>>
    THEN [gene |-> gene, raised |-> ""]
    ELSE IF GroupSum(gene, Head(groups), Len(Head(groups))) = <<0, 1>>
    THEN [gene |-> gene, raised |-> "ZeroDivisionError"]
    ELSE normalize(group_scaled(gene, Head(groups)), Tail(groups))

\* the values random.uniform(0, 1) is taken to return
UniformValues == {<<0, 1>>, <<1, 2>>}

\* an individual: GaGeneVirt.__init__ sets quality = None
Individual(gene) == [gene |-> gene, quality |-> None]

\* GaSimVirtOpt.SWAP_PERC_GENES = .5, the default of conf_swap_frac_genes
SWAP_PERC_GENES == <<1, 2>>

\* indiv_cross_random_swap: n_ids = int(len(ind_a) * self.conf_swap_frac_genes)
n_ids == (Cardinality(GenePositions) * SWAP_PERC_GENES[1]) \div SWAP_PERC_GENES[2]

\* the schemas tried: one node, one interval, up to MaxEnvs environments
InitGa ==
    /\ indices \in {b \in SchemaBounds : b["j"] = 1 /\ b["l"] = 1}
    /\ variables = GaVariables
    /\ call = NoCall
    /\ provider = <<>>
    /\ planner = NoPlanner
    /\ NoSimulation
    /\ di = NoDataInterface
    /\ ga = NoGa

\* import sim_opt: the class body of GaGeneVirt evaluates the annotation
\* linsmat.VirtHelper of _virt_helper_as_index_var_list, a name linsmat does not
\* have: AttributeError where annotations are evaluated at definition, no error
\* where their evaluation is deferred (python_requires is ">=3.7")
ImportSimOpt ==
    /\ ga.imported = ""
    /\ \E outcome \in {"ok", "AttributeError"} : ga' = [ga EXCEPT !.imported = outcome]
    /\ UNCHANGED <<indices, variables, call, provider, planner, simvars, di>>

\* _population_generate(n), raw being what random.uniform(0, 1) returned: each
\* new gene is filled and normalized, one after the other
population_generate(raw, groups) ==
    LET population_new == [k \in DOMAIN raw |-> normalize(raw[k], groups)]
    IN  IF \E k \in DOMAIN raw : population_new[k].raised # ""
        THEN [raised |-> "ZeroDivisionError", new |-> <<>>]
        ELSE [raised |-> "",
              new |-> [k \in DOMAIN raw |-> Individual(population_new[k].gene)]]

\* _population_generate_append(n): the population is extended only when
\* _population_generate returned
PopulationGenerateAppend(n) ==
    /\ ga.imported = "ok"
    /\ ga.calls < MaxGaCalls
    /\ Len(ga.population) + n <= MaxPopulation
    /\ LET groups == GaGroups
       IN  \E raw \in [1..n -> [1..get_row_len -> UniformValues]] :
              ga' = [ga EXCEPT !.method = "_population_generate",
                               !.raised = population_generate(raw, groups).raised,
                               !.calls = @ + 1,
                               !.population = @ \o population_generate(raw, groups).new]
    /\ UNCHANGED <<indices, variables, call, provider, planner, simvars, di>>

\* indiv_cross_random_swap(population[a], population[b]): the values at
\* random.sample(range(len(ind_a)), n_ids) are swapped in place, then ind_a and
\* ind_b are normalized in that order
indiv_cross_random_swap(a, b) ==
    /\ ga.imported = "ok"
    /\ ga.calls < MaxGaCalls
    /\ a # b
    /\ \E ids \in {S \in SUBSET GenePositions : Cardinality(S) = n_ids} :
          LET ind_a == SubSeq([i \in 1..get_row_len |->
                                  IF i - 1 \in ids THEN ga.population[b].gene[i]
                                  ELSE ga.population[a].gene[i]], 1, get_row_len)
              ind_b == SubSeq([i \in 1..get_row_len |->
                                  IF i - 1 \in ids THEN ga.population[a].gene[i]
                                  ELSE ga.population[b].gene[i]], 1, get_row_len)
              groups == GaGroups
              norm_a == normalize(ind_a, groups)
              norm_b == IF norm_a.raised # ""
                        THEN [gene |-> ind_b, raised |-> norm_a.raised]
                        ELSE normalize(ind_b, groups)
          IN  ga' = [ga EXCEPT !.method = "indiv_cross_random_swap",
                               !.raised = norm_b.raised, !.calls = @ + 1,
                               !.population[a].gene = norm_a.gene,
                               !.population[b].gene = norm_b.gene]
    /\ UNCHANGED <<indices, variables, call, provider, planner, simvars, di>>

\* GaSimVirtOpt.SWAP_PERC_POPULATION = .3, the default of swap_perc_population
SWAP_PERC_POPULATION == <<3, 10>>

\* _population_cross_fraction_random: n = int(len(self.population()) * fraction),
\* then n = n - (n % 2), the number of individuals crossed
n_crossed(len) ==
    LET n == (len * SWAP_PERC_POPULATION[1]) \div SWAP_PERC_POPULATION[2]
    IN  n - (n % 2)

\* GaGeneVirt.as_data_interface: virt_helper.env.data_interface is a
\* linsmat.DataInterface, which has no clone_as_dict_ram, and linsmat has no
\* ZeroingDataInterface: the first statement raises AttributeError
as_data_interface_raised == "AttributeError"

\* GaSimVirtOpt(population_size=size, n_iterations=iterations).run(): the two
\* assertions, the first population, and the first pass of the loop, in which
\* nobody is crossed (n_crossed is 0 for so few individuals) and
\* _population_update_sim raises at its first individual
Run(size, iterations) ==
    /\ ga.imported = "ok"
    /\ ga.calls < MaxGaCalls
    /\ ga.population = <<>>
    /\ n_crossed(size) = 0
    /\ LET groups == GaGroups
       IN  IF ~(iterations > 1 /\ size > 1)
           THEN ga' = [ga EXCEPT !.method = "run", !.raised = "AssertionError",
                                 !.calls = @ + 1, !.population_size = size,
                                 !.n_iterations = iterations]
           ELSE \E raw \in [1..size -> [1..get_row_len -> UniformValues]] :
                   ga' = [ga EXCEPT !.method = "run",
                                    !.raised =
                                        IF population_generate(raw, groups).raised # ""
                                        THEN population_generate(raw, groups).raised
                                        ELSE as_data_interface_raised,
                                    !.calls = @ + 1, !.population_size = size,
                                    !.n_iterations = iterations,
                                    !.population = population_generate(raw, groups).new]
    /\ UNCHANGED <<indices, variables, call, provider, planner, simvars, di>>

\* a GaSimVirtOpt on which run() is called
NextGaRun ==
    \/ ImportSimOpt
    \/ \E size \in 1..MaxPopulation, iterations \in 1..MaxGaCalls : Run(size, iterations)

SpecGaRun == InitGa /\ [][NextGaRun]_vars

\* a GaSimVirtOpt whose population is generated and crossed by its caller
NextGa ==
    \/ ImportSimOpt
    \/ \E n \in 1..MaxPopulation : PopulationGenerateAppend(n)
    \/ \E a, b \in DOMAIN ga.population : indiv_cross_random_swap(a, b)

SpecGa == InitGa /\ [][NextGa]_vars

(***************************************************************************)
(* Claims about the genetic optimisation, checked under SpecGa.            *)
(***************************************************************************)
\* the sum of all entries of a gene, the first n positions taken
RECURSIVE GeneSum(_, _)
GeneSum(gene, n) ==
    IF n = 0 THEN <<0, 1>> ELSE FracAdd(GeneSum(gene, n - 1), gene[n])

\* for each variable and each combination of its non-rho indices, the values
\* over rho sum to 1
Normalized(gene) ==
    \A k \in DOMAIN GaGroups : GroupSum(gene, GaGroups[k], Len(GaGroups[k])) = <<1, 1>>

\* C22: after GaGeneVirt.normalize, and therefore after every crossover
\* (indiv_cross_random_swap) and every regeneration (_population_generate),
\* for each of m_psi, m_v, m_phi and each combination of the variable's
\* non-rho indices the gene values over rho sum to 1, and so the sum of all
\* entries of a gene is a whole number.
Claim_C22 ==
    ga.method \in {"_population_generate", "indiv_cross_random_swap"} =>
        /\ ga.raised = ""
        /\ \A k \in DOMAIN ga.population :
              /\ Normalized(ga.population[k].gene)
              /\ GeneSum(ga.population[k].gene, Cardinality(GenePositions))[2] = 1

\* C23: in every iteration of GaSimVirtOpt.run the n_worst individuals
\* discarded have a quality less than or equal to that of every individual
\* kept, exactly n_worst fresh individuals are appended, so the population
\* size equals population_size at the end of every iteration; after
\* n_iterations iterations run returns the data interface of an individual of
\* maximal quality in the final population.
Claim_C23 ==
    (ga.method = "run" /\ ga.n_iterations > 1 /\ ga.population_size > 1) =>
        /\ ga.raised = ""
        /\ Len(ga.population) = ga.population_size
        /\ \A k \in DOMAIN ga.population :
              /\ ga.population[k].quality # None
              /\ ga.population[k].quality <= ga.population[Len(ga.population)].quality

(***************************************************************************)
(* Claims about the sizes of what the legacy planner builds.               *)
(***************************************************************************)
\* the sum over the packed variables of the product of the radix vector of
\* each (1 for an empty index list)
RadixProductSum ==
    LET prods == [k \in DOMAIN variables |->
                     SeqProd([m \in DOMAIN variables[k].idx |->
                                 indices[variables[k].idx[m]]])]
    IN  SeqSum(prods)

\* C24: get_row_len() is the sum over the packed variables of the product of
\* each variable's radix vector, and in a constructed LinsolvPlanner of
\* twoopt/linsolv_planner.py the bounds list, the objective vector and every
\* equality row have get_row_len() entries, and there are as many equality
\* rows as right-hand-side entries.
Thm_C24 ==
    /\ get_row_len = RadixProductSum
    /\ (planner.kind = "legacy" /\ planner.built) =>
          /\ Cardinality(DOMAIN planner.bnd) = get_row_len
          /\ Cardinality(DOMAIN planner.obj) = get_row_len
          /\ \A k \in DOMAIN planner.eq_lhs :
                Cardinality(DOMAIN planner.eq_lhs[k]) = get_row_len
          /\ Cardinality(DOMAIN planner.eq_lhs) = Cardinality(DOMAIN planner.eq_rhs)

\* C24 witness: a planner constructed for two nodes, two environments and two
\* intervals with every x_eq defined: 8 equality rows of 40 entries each
Wit_C24 ==
    /\ planner.kind = "legacy" /\ planner.built
    /\ get_row_len = 40
    /\ Cardinality(DOMAIN planner.eq_lhs) = 8
    /\ Cardinality(DOMAIN planner.bnd) = 40
    /\ Cardinality(DOMAIN planner.obj) = 40

(***************************************************************************)
(* Part V: the index conversions and the iteration of Schema               *)
(* (twoopt/data_processing/vector_index.py).  The schema's variableindices *)
(* is the mapping variables, its indexbound the mapping indices.           *)
(***************************************************************************)
\* the largest place of the list declared at which the name n stands
LastPlace(declared, n) ==
    CHOOSE k \in DOMAIN declared :
        declared[k] = n /\ \A k2 \in DOMAIN declared : declared[k2] = n => k2 <= k

\* a conversion that maps the values to the declared names back to front
Schema_indices_plain_to_dict_reversed(v, t) ==
    IF v \notin Range(VarKeys) THEN Raise("KeyError")
    ELSE LET declared == VarIndices(v)
         IN  IF Len(t) # Len(declared) THEN Raise("AssertionError")
             ELSE Ret(<<v, [n \in Range(declared) |->
                               t[Len(t) + 1 - LastPlace(declared, n)]]>>)

\* Schema.indices_plain_to_dict(variable, *indices): the length is asserted,
\* then (variable, dict(zip(declared, indices)))
Schema_indices_plain_to_dict(v, t) ==
    IF v \notin Range(VarKeys) THEN Raise("KeyError")
    ELSE LET declared == VarIndices(v)
         IN  IF Len(t) # Len(declared) THEN Raise("AssertionError")
             ELSE Ret(<<v, [n \in Range(declared) |-> t[LastPlace(declared, n)]]>>)

\* Schema.indices_dict_to_plain(variable, **indices): the key set is asserted,
\* then (variable,) + the values in declared order
Schema_indices_dict_to_plain(v, d) ==
    IF v \notin Range(VarKeys) THEN Raise("KeyError")
    ELSE LET declared == VarIndices(v)
         IN  IF Range(declared) # DOMAIN d THEN Raise("AssertionError")
             ELSE Ret(<<v>> \o [k \in DOMAIN declared |-> d[declared[k]]])

\* the positional tuples tried: up to MaxTuple integers
PlainTuples == UNION {[1..n -> KwValues] : n \in 0..MaxTuple}

\* no conversion has been called yet
NoConversion(v, input, plain) ==
    [stage |-> 0, method |-> "", variable |-> v, input |-> input, plain |-> plain,
     first |-> Raise(""), second |-> Raise("")]

\* a Schema as read, and the arguments of the conversion to come
InitSchema ==
    /\ indices \in [IndexNames -> 1..MaxCard]
    /\ variables \in VariableMaps
    /\ call \in {NoConversion(v, t, TRUE) : v \in VarNames, t \in PlainTuples}
                \cup {NoConversion(v, d, FALSE) : v \in VarNames, d \in KwArgs}
    /\ provider = <<>>
    /\ planner = NoPlanner
    /\ NoSimulation
    /\ di = NoDataInterface
    /\ ga = NoGa

\* schema.indices_plain_to_dict(variable, *p)
IndicesPlainToDict ==
    /\ call.stage = 0 /\ call.plain
    /\ call' = [call EXCEPT !.stage = 1, !.method = "indices_plain_to_dict",
                            !.first = Schema_indices_plain_to_dict(call.variable, call.input)]
    /\ UNCHANGED <<indices, variables, provider, planner>>
    /\ UNCHANGED <<simvars, di, ga>>

\* schema.indices_dict_to_plain(variable, **d)
IndicesDictToPlain ==
    /\ call.stage = 0 /\ ~call.plain
    /\ call' = [call EXCEPT !.stage = 1, !.method = "indices_dict_to_plain",
                            !.first = Schema_indices_dict_to_plain(call.variable, call.input)]
    /\ UNCHANGED <<indices, variables, provider, planner>>
    /\ UNCHANGED <<simvars, di, ga>>

\* schema.indices_dict_to_plain(variable, **schema.indices_plain_to_dict(variable, *p)[1])
BackToPlain ==
    /\ call.stage = 1 /\ call.method = "indices_plain_to_dict" /\ call.first.ok
    /\ call' = [call EXCEPT !.stage = 2,
                            !.second = Schema_indices_dict_to_plain(call.variable,
                                                                    call.first.val[2])]
    /\ UNCHANGED <<indices, variables, provider, planner>>
    /\ UNCHANGED <<simvars, di, ga>>

\* schema.indices_plain_to_dict(variable, *schema.indices_dict_to_plain(variable, **d)[1:])
BackToDict ==
    /\ call.stage = 1 /\ call.method = "indices_dict_to_plain" /\ call.first.ok
    /\ call' = [call EXCEPT !.stage = 2,
                            !.second = Schema_indices_plain_to_dict(call.variable,
                                                                    Tail(call.first.val))]
    /\ UNCHANGED <<indices, variables, provider, planner>>
    /\ UNCHANGED <<simvars, di, ga>>

\* an iteration in which the first named index varies fastest
radix_map_iter_first_fastest(names) ==
    LET n == Len(names)
        back == radix_cartesian_product([k \in 1..n |-> indices[names[n + 1 - k]]])
    IN  [m \in DOMAIN back |-> [k \in 1..n |-> back[m][n + 1 - k]]]

\* Schema.radix_map_iter(*indices): make_radix_map, then every tuple of
\* radix_cartesian_product in the order it gives them
radix_map_iter(names) ==
    radix_cartesian_product([k \in DOMAIN names |-> indices[names[k]]])

\* list(schema.radix_map_iter_var(variable)): radix_map_iter over the declared
\* indices of the variable
RadixMapIterVar ==
    /\ call.stage = 0 /\ call.plain /\ call.input = <<>>
    /\ call.variable \in Range(VarKeys)
    /\ call' = [call EXCEPT !.stage = 3, !.method = "radix_map_iter_var",
                            !.first = Ret(radix_map_iter(VarIndices(call.variable)))]
    /\ UNCHANGED <<indices, variables, provider, planner>>
    /\ UNCHANGED <<simvars, di, ga>>

NextSchema ==
    \/ IndicesPlainToDict
    \/ IndicesDictToPlain
    \/ BackToPlain
    \/ BackToDict
    \/ RadixMapIterVar

SpecSchema == InitSchema /\ [][NextSchema]_vars

\* C25: for a declared variable, a tuple of as many integers as the variable
\* has declared indices comes back unchanged, behind the variable's name, from
\* indices_plain_to_dict followed by indices_dict_to_plain; a mapping whose
\* keys are the declared indices comes back unchanged from the opposite round
\* trip; and either conversion fails when the count or the names do not match.
Thm_C25 ==
    (call.variable \in Range(VarKeys) /\ call.stage \in {1, 2}) =>
        LET declared == VarIndices(call.variable)
        IN  IF call.plain
            THEN IF Len(call.input) = Len(declared)
                 THEN /\ call.first.ok
                      /\ call.stage = 2 =>
                            call.second = Ret(<<call.variable>> \o call.input)
                 ELSE ~call.first.ok
            ELSE IF DOMAIN call.input = Range(declared)
                 THEN /\ call.first.ok
                      /\ call.stage = 2 =>
                            call.second = Ret(<<call.variable, call.input>>)
                 ELSE ~call.first.ok

\* C25 witness: the tuple (0, 1) of a variable declared over (b, a) has gone
\* through both conversions and come back as (variable, 0, 1)
Wit_C25 ==
    /\ call.stage = 2 /\ call.plain
    /\ call.variable \in Range(VarKeys)
    /\ VarIndices(call.variable) = <<"b", "a">>
    /\ call.input = <<0, 1>>
    /\ call.first.val[2]["a"] = 1
    /\ call.second.val = <<call.variable, 0, 1>>

\* tuple s comes before tuple t of the same length in lexicographic order
LexLess(s, t) ==
    \E k \in DOMAIN s :
        /\ s[k] < t[k]
        /\ \A k2 \in 1..(k - 1) : s[k2] = t[k2]

\* C26: the iteration over the declared indices of a variable yields every
\* tuple of range(bound(i1)) x ... x range(bound(in)) exactly once, in
\* lexicographic order (the last index varying fastest), and the tuple yielded
\* after k others is the one whose dot product with the radix multipliers of
\* get_pos is k.
Thm_C26 ==
    call.method = "radix_map_iter_var" =>
        LET v == call.variable
            declared == VarIndices(v)
            out == call.first.val
        IN  /\ \A a, b \in DOMAIN out : out[a] = out[b] => a = b
            /\ \A a \in DOMAIN out :
                  /\ Len(out[a]) = Len(declared)
                  /\ \A k \in DOMAIN declared :
                        out[a][k] \in 0..(indices[declared[k]] - 1)
            /\ Len(out) = SeqProd([k \in DOMAIN declared |-> indices[declared[k]]])
            /\ \A a, b \in DOMAIN out : a < b => LexLess(out[a], out[b])
            /\ \A a \in DOMAIN out :
                  SeqSum([k \in DOMAIN declared |->
                             out[a][k] * radix_mult_vectors(v)[k]]) = a - 1

\* C26 witness: over the declared indices (a, b) with bounds 2 and 2 the
\* iteration has yielded (0, 0), (0, 1), (1, 0), (1, 1)
Wit_C26 ==
    /\ call.method = "radix_map_iter_var"
    /\ VarIndices(call.variable) = <<"a", "b">>
    /\ call.first.val = << <<0, 0>>, <<0, 1>>, <<1, 0>>, <<1, 1>> >>

(***************************************************************************)
(* Claims about the order of the operations within a tick.                 *)
(***************************************************************************)
\* what step() of operation id moves, without noise, when its input container
\* holds the amount input: Operation.amount_proc_available with
\* amount_input() = input; a store operation first takes over the total of
\* its carry-over container
step_amount(id, input) ==
    LET o == IF ops[id].cls = "StoreOp"
             THEN [ops[id] EXCEPT !.amount_processed = store_step_start(ops[id])]
             ELSE ops[id]
        diff_planned == amount_diff_planned(o)
        amount_step_lower ==
            IF o.proc_intensity_lower = 0
            THEN 0
            ELSE o.proc_intensity_lower * o.proc_intensity_fraction * sim_global.dt
        amount_step_upper == o.proc_intensity_upper * o.proc_intensity_fraction * sim_global.dt
    IN  clamp(clamp(diff_planned, amount_step_lower, amount_step_upper),
              -amount_stash(o), input)

\* C27: with the noise held fixed, a tick of Simulation.step ends in the same
\* state whatever the order in which the transfer, store and process
\* operations of the tick step: the tick reaches its end, and what one of two
\* such operations moves does not depend on whether the other has stepped.
Claim_C27 ==
    /\ tick.called => tick.raised = ""
    /\ \A a, b \in CurrentOps(payload_ops_shuffled) :
          (a # b /\ ops[a].container_input = ops[b].container_input) =>
              LET input == amount_input(ops[a])
              IN  step_amount(a, input - step_amount(b, input)) = step_amount(a, input)

\* C28: after n calls of step() on a generate operation of intensity I with
\* planned amount n * I, the processed total of the operation is n * I; the
\* generate operations of the simulation are planned for one step (n = 1).
Claim_C28 ==
    (Did("generate", "step") /\ hist.calls = 1) =>
        /\ ops[ev.op].amount_planned = 1 * ops[ev.op].proc_intensity_upper
        /\ ops[ev.op].amount_processed = 1 * ops[ev.op].proc_intensity_upper

\* C29: no container amount and no stored total is ever negative: a step
\* takes out of its input container at most what the container holds, and a
\* store operation gives back at most what it has stored.
Thm_C29 ==
    /\ \A k \in DOMAIN containers : containers[k] >= 0
    /\ \A k \in DOMAIN containers_processed : containers_processed[k] >= 0
    /\ \A id \in store_ops : ops[id].amount_processed >= 0
    /\ (ev.method = "step" /\ ev.raised = "" /\ ev.op[1] # "generate") =>
          /\ ev.moved <= ev.in_before
          /\ ev.op[1] = "store" => 0 - ev.moved <= ev.start

\* C29 witness: a process operation planned for more than its input container
\* held has taken all of it and left the container empty
Wit_C29 ==
    /\ Did("process", "step")
    /\ ev.moved = ev.in_before
    /\ ev.moved > 0
    /\ ev.moved < ops[ev.op].amount_planned
    /\ ev.moved < ops[ev.op].proc_intensity_upper * ops[ev.op].proc_intensity_fraction
    /\ containers[ops[ev.op].container_input] = 0

(***************************************************************************)
(* Part VI: the clock of the simulation, SimGlobal of twoopt/simulation.py,*)
(* driven by calls of t_inc() alone.  The durations tl of the intervals    *)
(* are data of the provider.                                               *)
(***************************************************************************)
\* the durations tried: every interval lasts between 1 and MaxAmount ticks
TlData(b) ==
    {[k \in {<<"tl", l>> : l \in 0..(b["l"] - 1)} |-> d[k[2] + 1]] :
        d \in [1..b["l"] -> 1..MaxAmount]}

\* a SimGlobal as constructed for a simulation: t = 0.0, l = 0, dt = 1.0
InitClock ==
    /\ indices \in SchemaBounds
    /\ variables = <<>>
    /\ call = NoCall
    /\ provider \in TlData(indices)
    /\ planner = NoPlanner
    /\ NoSimulation
    /\ di = NoDataInterface
    /\ ga = NoGa

\* sim_global.t_inc()
TInc ==
    /\ hist.calls < MaxCalls
    /\ sim_global' = t_inc
    /\ tick' = [called |-> TRUE, raised |-> t_inc_raised, log |-> <<>>]
    /\ Called
    /\ UNCHANGED <<indices, variables, call, provider, planner, containers,
                   containers_processed, ops, ev, di, ga>>

NextClock == TInc

SpecClock == InitClock /\ [][NextClock]_vars

\* the sum of the durations of the intervals 0 .. l - 1
RECURSIVE TlSum(_)
TlSum(l) == IF l = 0 THEN 0 ELSE TlSum(l - 1) + provider[<<"tl", l - 1>>]

\* C30: after every t_inc() the current interval l is the one that contains
\* the simulated time t under the cumulative durations, as long as t is below
\* the total duration; l never decreases and does not pass the last interval.
Claim_C30 ==
    [][hist'.calls = hist.calls + 1 =>
          /\ tick'.raised = ""
          /\ sim_global'.l >= sim_global.l
          /\ sim_global'.t < TlSum(indices["l"]) =>
                /\ sim_global'.l <= indices["l"] - 1
                /\ TlSum(sim_global'.l) <= sim_global'.t
                /\ sim_global'.t < TlSum(sim_global'.l + 1)]_vars

====
